---------------------------- MODULE Spec2Model ----------------------------
(***************************************************************************)
(* A model of the humanslog handler (src/devslog.go): handler derivation   *)
(* (WithGroup / WithAttrs), the record normalizer and the logfmt formatter *)
(* of formatOneLine, the serialized write of Handle, and the reflective    *)
(* value renderer (elementType and the format* family).                    *)
(*                                                                         *)
(* Output bytes are modelled as a sequence of tokens.  A token is a record *)
(* [t, k, v, l]: its type, its key text (a sequence of text pieces), its   *)
(* value text and its indentation level.  Colors are left out.             *)
(***************************************************************************)
EXTENDS Integers, Sequences, FiniteSets, TLC

VARIABLES
    opts,       \* developHandler.opts, shared by every derived handler
    handlers,   \* the handler objects: <<[goas, mu]>>, index = identity
    derived,    \* for each handler the call that made it: [parent, goa]
    proc,       \* per goroutine: position in Handle and its locals
    sinkLog,    \* per goroutine: the Write calls its current Handle made
    heap,       \* the value graph handed to the renderer
    root,       \* the attribute's value (a slot)
    fstack,     \* renderer call stack: composites whose closer is pending
    cur,        \* the value the renderer is about to dispatch on
    vi,         \* the visited set of the render call
    out,        \* the renderer's output tokens
    expanded,   \* how often each pointer key was expanded in this call
    status,     \* renderer status
    loc         \* the locals of the function being run, where it has a loop

hvars == <<opts, handlers, derived, proc, sinkLog>>
rvars == <<heap, root, fstack, cur, vi, out, expanded, status>>
lvars == <<loc>>
vars == <<opts, handlers, derived, proc, sinkLog, heap, root, fstack, cur, vi, out, expanded, status, loc>>

(***************************************************************************)
(* Bounds                                                                  *)
(***************************************************************************)
MaxHandlers == 3

ConcHandlers == 2

NumProcs == 2

MaxNodes == 3

\* The width of int and uint, scaled down from 64 bits.
IntBits == 8

\* The longest chain of wrapped errors.
MaxChain == 3

(***************************************************************************)
(* Attributes, frames, records                                             *)
(***************************************************************************)
StringAttr(k, s) == [Key |-> k, Kind |-> "String", Str |-> s, Group |-> <<>>]

GroupAttr(k, as) == [Key |-> k, Kind |-> "Group", Str |-> "", Group |-> as]

\* slog.Any with a value that is no string: its kind is KindAny; Str is its
\* textual form (fmt.Sprint).
AnyAttr(k, text) == [Key |-> k, Kind |-> "Any", Str |-> text, Group |-> <<>>]

\* slog.Any with a value that has a LogValue method: its kind is
\* KindLogValuer until it is resolved.  Str is the text of the unresolved
\* value; lv says what LogValue does: return a group, or panic.
LogValuerAttr(k, lv) ==
    [Key |-> k, Kind |-> "LogValuer", Str |-> "{5 test}", Group |-> <<>>, lv |-> lv]

LevelAttr(level) == [Key |-> "level", Kind |-> "Any", Str |-> level, Group |-> <<>>]

groupFrame(s) == [group |-> s, attrs |-> <<>>]

attrsFrame(as) == [group |-> "", attrs |-> as]

Record(attrs) == [Level |-> "INFO", Message |-> "msg", Attrs |-> attrs]

Tok(t, k, v, l) == [t |-> t, k |-> k, v |-> v, l |-> l]

\* Text of the strings the model uses: which contain a line break, which
\* parse as JSON.
MultilineText == "l1\nl2"

StrContainsNewline(s) == s = MultilineText

\* The texts of the model that json.Unmarshal accepts and that start with
\* "{" or "[".
JSONTexts == {"{}", "[1]", "[]"}

isJSON(val) == val \in JSONTexts

\* a.Value.String(): a string as is, any other value by fmt.Sprint; a
\* group's text is "[k=v ...]", which is "[]" for the empty group.
ValueString(a) ==
    CASE a.Kind = "Group" -> IF Len(a.Group) = 0 THEN "[]" ELSE "[k=v]"
      [] OTHER -> a.Str

RECURSIVE attrContainsNewline(_)
attrContainsNewline(a) ==
    CASE a.Kind = "String" -> StrContainsNewline(a.Str)
      [] a.Kind = "Group" -> \E i \in 1..Len(a.Group) : attrContainsNewline(a.Group[i])
      [] OTHER -> FALSE

\* slog.GroupValue drops the empty groups of its argument list.
isEmptyGroup(a) == a.Kind = "Group" /\ Len(a.Group) = 0

GroupValue(as) == SelectSeq(as, LAMBDA a : ~isEmptyGroup(a))

\* Record.AddAttrs omits empty groups as well.
AddAttrs(r, as) == [r EXCEPT !.Attrs = @ \o GroupValue(as)]

(***************************************************************************)
(* The rewrite hook (HandlerOptions.ReplaceAttr): "nil", the identity, or  *)
(* the hook of the tests, which renames the level key to "sev" and makes   *)
(* its value a string.  A fourth hook returns every attribute with an      *)
(* empty key.                                                              *)
(***************************************************************************)
HookModes == {"nil", "identity", "renameLevel"}

FormatHookModes == HookModes \cup {"emptyKey"}

ReplaceAttr(groups, a) ==
    IF opts.ReplaceAttr = "renameLevel" /\ a.Key = "level"
    THEN [a EXCEPT !.Key = "sev", !.Kind = "String"]
    ELSE IF opts.ReplaceAttr = "emptyKey"
    THEN [a EXCEPT !.Key = ""]
    ELSE a

applyHook(groups, a) == IF opts.ReplaceAttr # "nil" THEN ReplaceAttr(groups, a) ELSE a

(***************************************************************************)
(* sort.Sort(as): attributes.Less orders by key.  The lists of the model   *)
(* are shorter than 12, where sort.Sort is an insertion sort.              *)
(***************************************************************************)
KeyOrder == <<"", "a", "b", "g", "h", "level", "m", "q", "sev", "x", "y">>

KeyRank(k) == CHOOSE i \in 1..Len(KeyOrder) : KeyOrder[i] = k

attributesLess(a, b) == KeyRank(a.Key) < KeyRank(b.Key)

RECURSIVE insertionStep(_, _)
insertionStep(sorted, a) ==
    IF Len(sorted) > 0 /\ attributesLess(a, sorted[Len(sorted)])
    THEN Append(insertionStep(SubSeq(sorted, 1, Len(sorted) - 1), a), sorted[Len(sorted)])
    ELSE Append(sorted, a)

RECURSIVE sortSort(_)
sortSort(as) ==
    IF Len(as) = 0 THEN <<>>
    ELSE insertionStep(sortSort(SubSeq(as, 1, Len(as) - 1)), as[Len(as)])

(***************************************************************************)
(* strings.Join(elems, "."): the pieces with a "." between neighbours.     *)
(***************************************************************************)
RECURSIVE stringsJoin(_)
stringsJoin(elems) ==
    IF Len(elems) = 0 THEN <<>>
    ELSE IF Len(elems) = 1 THEN <<elems[1]>>
    ELSE <<elems[1], ".">> \o stringsJoin(Tail(elems))

\* formatValueInline on the value kinds of this part of the model: the
\* text of a string, the text of a level.
formatValueInline(a) == a.Str

(***************************************************************************)
(* formatLogfmtAttrs: one " key=value" token per non-group attribute,      *)
(* groups flattened with the dot-joined group path.                        *)
(***************************************************************************)
RECURSIVE formatLogfmtAttrsNoPrefix(_, _)
formatLogfmtAttrsNoPrefix(as, group) ==
    IF Len(as) = 0 THEN <<>>
    ELSE LET a == applyHook(group, as[1])
             this == IF a.Kind = "Group"
                     THEN formatLogfmtAttrsNoPrefix(a.Group, Append(group, a.Key))
                     ELSE <<Tok("kv", <<a.Key>>, formatValueInline(a), 0)>>
         IN  this \o formatLogfmtAttrsNoPrefix(Tail(as), group)

RECURSIVE formatLogfmtAttrs(_, _)
formatLogfmtAttrs(as, group) ==
    IF Len(as) = 0 THEN <<>>
    ELSE LET a == applyHook(group, as[1])
             this == IF a.Kind = "Group"
                     THEN formatLogfmtAttrs(a.Group, Append(group, a.Key))
                     ELSE LET key == IF Len(group) > 0
                                     THEN stringsJoin(Append(group, a.Key))
                                     ELSE <<a.Key>>
                          IN  <<Tok("kv", key, formatValueInline(a), 0)>>
         IN  this \o formatLogfmtAttrs(Tail(as), group)

(***************************************************************************)
(* colorize: the block section.  One line per attribute at indentation l;  *)
(* a group prints a header and its children one level deeper.  The group   *)
(* path handed to the hook is extended in place by every group met, so it  *)
(* is threaded through the loop.                                           *)
(***************************************************************************)
RECURSIVE colorizeLoop(_, _, _)
colorizeLoop(as, l, group) ==
    IF Len(as) = 0 THEN <<>>
    ELSE LET a == applyHook(group, as[1])
             group2 == IF a.Kind = "Group" THEN Append(group, a.Key) ELSE group
             this == IF a.Kind = "Group"
                     THEN <<Tok("group", <<a.Key>>, "", l)>>
                          \o colorizeLoop(IF opts.SortKeys THEN sortSort(a.Group) ELSE a.Group,
                                          l + 1, group2)
                     ELSE <<Tok("line", <<a.Key>>, a.Str, l)>>
         IN  this \o colorizeLoop(Tail(as), l, group2)

colorize(as, l, group) ==
    colorizeLoop(IF opts.SortKeys THEN sortSort(as) ELSE as, l, group)

(***************************************************************************)
(* formatOneLine                                                           *)
(***************************************************************************)
\* slog.Any(slog.SourceKey, s) of the record's program location.
SourceAttr == [Key |-> "source", Kind |-> "Any", Str |-> "file.go:1", Group |-> <<>>]

\* The location, if AddSource is set: with a hook it is printed unless the
\* hook returns an empty key for the source attribute.
sourceInfoAlways ==
    IF opts.AddSource THEN <<Tok("source", <<>>, SourceAttr.Str, 0)>> ELSE <<>>

sourceInfo ==
    IF opts.AddSource
    THEN IF opts.ReplaceAttr # "nil"
         THEN IF ReplaceAttr(<<>>, SourceAttr).Key # ""
              THEN <<Tok("source", <<>>, SourceAttr.Str, 0)>>
              ELSE <<>>
         ELSE <<Tok("source", <<>>, SourceAttr.Str, 0)>>
    ELSE <<>>

\* The level badge: with a hook, the level attribute goes through it and,
\* when its key is no longer "level", is added to the record.
levelStep(r) ==
    IF opts.ReplaceAttr # "nil"
    THEN LET a == ReplaceAttr(<<>>, LevelAttr(r.Level))
         IN  [ls |-> a.Str, r |-> IF a.Key # "level" THEN AddAttrs(r, <<a>>) ELSE r]
    ELSE [ls |-> r.Level, r |-> r]

\* With no record attributes, the trailing group frames are dropped.
RECURSIVE dropTrailingGroups(_)
dropTrailingGroups(goas) ==
    IF Len(goas) > 0 /\ goas[Len(goas)].group # ""
    THEN dropTrailingGroups(SubSeq(goas, 1, Len(goas) - 1))
    ELSE goas

\* The loop over the frames, newest first.
RECURSIVE mergeGoasOldestFirst(_, _, _)
mergeGoasOldestFirst(goas, i, as) ==
    IF i = 0 THEN as
    ELSE LET f == goas[Len(goas) - i + 1]
         IN  mergeGoasOldestFirst(goas, i - 1,
                 IF f.group # "" THEN <<GroupAttr(f.group, GroupValue(as))>> ELSE as \o f.attrs)

RECURSIVE mergeGoas(_, _, _)
mergeGoas(goas, i, as) ==
    IF i = 0 THEN as
    ELSE IF goas[i].group # ""
         THEN mergeGoas(goas, i - 1, <<GroupAttr(goas[i].group, GroupValue(as))>>)
         ELSE mergeGoas(goas, i - 1, as \o goas[i].attrs)

\* a.Value.Resolve(): LogValue is called; a panic in it is recovered and
\* becomes an error value.
Resolve(a) ==
    IF a.Kind = "LogValuer"
    THEN IF a.lv = "group"
         THEN GroupAttr(a.Key, <<StringAttr("y", "5")>>)
         ELSE AnyAttr(a.Key, "LogValue panicked")
    ELSE a

\* r.Attrs(...): every attribute of the record, resolved.
resolveAttrs(as) == [i \in 1..Len(as) |-> Resolve(as[i])]

\* The merged, possibly sorted attribute list of a record.
normalize(hgoas, r) ==
    LET r2 == levelStep(r).r
        goas == IF Len(r2.Attrs) = 0 THEN dropTrailingGroups(hgoas) ELSE hgoas
        as == mergeGoas(goas, Len(goas), resolveAttrs(r2.Attrs))
    IN  IF opts.SortKeys THEN sortSort(as) ELSE as

isMultiline(a) == attrContainsNewline(a) \/ isJSON(ValueString(a))

formatOneLine(hgoas, r) ==
    LET ls == levelStep(r).ls
        messageHasNewlines == StrContainsNewline(r.Message)
        as == normalize(hgoas, r)
        inlineAttrs == SelectSeq(as, LAMBDA a : ~isMultiline(a))
        multilineAttrs == SelectSeq(as, LAMBDA a : isMultiline(a))
    IN  <<Tok("time", <<>>, "", 0)>>
        \o sourceInfo
        \o <<Tok("level", <<>>, ls, 0)>>
        \o (IF messageHasNewlines THEN <<>> ELSE <<Tok("msg", <<>>, r.Message, 0)>>)
        \o formatLogfmtAttrs(inlineAttrs, <<>>)
        \o (IF messageHasNewlines THEN <<Tok("blockmsg", <<>>, r.Message, 0)>> ELSE <<>>)
        \o (IF Len(multilineAttrs) > 0 THEN colorize(multilineAttrs, 0, <<>>) ELSE <<>>)
        \o (IF opts.NewLineAfterLog THEN <<Tok("nl", <<>>, "", 0)>> ELSE <<>>)
        \o <<Tok("nl", <<>>, "", 0)>>

(***************************************************************************)
(* Handlers, goroutines and the sink                                       *)
(***************************************************************************)
\* withGroupOrAttrs: a new handler with a fresh frame slice (the parent's
\* frames copied, the new frame last), the parent's options and sink and a
\* mutex of its own (the zero value).
withGroupOrAttrsShared(h, goa) ==
    Append([handlers EXCEPT ![h].goas = Append(@, goa)],
           [goas |-> Append(handlers[h].goas, goa), mu |-> 0])

withGroupOrAttrs(h, goa) ==
    Append(handlers, [goas |-> Append(handlers[h].goas, goa), mu |-> 0])

Procs == DOMAIN proc

Handlers == 1..Len(handlers)

IdleProc == [pc |-> "idle", h |-> 0, r |-> Record(<<>>), b |-> <<>>, err |-> "nil", ret |-> "nil"]

\* What Write can return.
WriteErrors == {"nil", "EIO"}

NoSlot == [t |-> "none", to |-> 0, boxed |-> FALSE]

NoLocals == [fn |-> "none"]

RenderOff ==
    /\ loc = NoLocals
    /\ heap = <<>>
    /\ root = NoSlot
    /\ fstack = <<>>
    /\ cur = NoSlot
    /\ vi = {}
    /\ out = <<>>
    /\ expanded = <<>>
    /\ status = "off"

\* WithGroup(s): the handler itself for the empty name, else a derived one.
WithGroup(p, h, s, max) ==
    /\ proc[p].pc \in {"idle", "done"}
    /\ IF s = ""
       THEN UNCHANGED <<handlers, derived>>
       ELSE /\ Len(handlers) < max
            /\ handlers' = withGroupOrAttrs(h, groupFrame(s))
            /\ derived' = Append(derived, [parent |-> h, goa |-> groupFrame(s)])
    /\ UNCHANGED <<opts, proc, sinkLog>>
    /\ UNCHANGED <<rvars, lvars>>

\* WithAttrs(as): the handler itself for the empty list, else a derived one.
WithAttrs(p, h, as, max) ==
    /\ proc[p].pc \in {"idle", "done"}
    /\ IF Len(as) = 0
       THEN UNCHANGED <<handlers, derived>>
       ELSE /\ Len(handlers) < max
            /\ handlers' = withGroupOrAttrs(h, attrsFrame(as))
            /\ derived' = Append(derived, [parent |-> h, goa |-> attrsFrame(as)])
    /\ UNCHANGED <<opts, proc, sinkLog>>
    /\ UNCHANGED <<rvars, lvars>>

\* Handle, first part: the record is rendered into b outside the lock.
Handle(p, h, r) ==
    /\ proc[p].pc \in {"idle", "done"}
    /\ proc' = [proc EXCEPT ![p] = [pc |-> "formatted", h |-> h, r |-> r,
                                    b |-> formatOneLine(handlers[h].goas, r),
                                    err |-> "nil", ret |-> "nil"]]
    /\ sinkLog' = [sinkLog EXCEPT ![p] = <<>>]
    /\ UNCHANGED <<opts, handlers, derived>>
    /\ UNCHANGED <<rvars, lvars>>

\* h.mu.Lock(): the mutex of the handler Handle was called on.
muLock(p) ==
    /\ proc[p].pc = "formatted"
    /\ handlers[proc[p].h].mu = 0
    /\ handlers' = [handlers EXCEPT ![proc[p].h].mu = p]
    /\ proc' = [proc EXCEPT ![p].pc = "locked"]
    /\ UNCHANGED <<opts, derived, sinkLog>>
    /\ UNCHANGED <<rvars, lvars>>

\* h.out.Write(b) is entered: the sink starts taking the bytes of b.
outWriteBegin(p) ==
    /\ proc[p].pc = "locked"
    /\ proc' = [proc EXCEPT ![p].pc = "writing"]
    /\ sinkLog' = [sinkLog EXCEPT ![p] = Append(@, proc[p].b)]
    /\ UNCHANGED <<opts, handlers, derived>>
    /\ UNCHANGED <<rvars, lvars>>

\* h.out.Write(b) returns, with or without an error.
outWriteEnd(p, err) ==
    /\ proc[p].pc = "writing"
    /\ proc' = [proc EXCEPT ![p].pc = "written", ![p].err = err]
    /\ UNCHANGED <<opts, handlers, derived, sinkLog>>
    /\ UNCHANGED <<rvars, lvars>>

\* return err, and the deferred h.mu.Unlock().
HandleReturnSwallow(p) ==
    /\ proc[p].pc = "written"
    /\ handlers' = [handlers EXCEPT ![proc[p].h].mu = 0]
    /\ proc' = [proc EXCEPT ![p].pc = "done", ![p].ret = "nil"]
    /\ UNCHANGED <<opts, derived, sinkLog>>
    /\ UNCHANGED <<rvars, lvars>>

HandleReturn(p) ==
    /\ proc[p].pc = "written"
    /\ handlers' = [handlers EXCEPT ![proc[p].h].mu = 0]
    /\ proc' = [proc EXCEPT ![p].pc = "done", ![p].ret = proc[p].err]
    /\ UNCHANGED <<opts, derived, sinkLog>>
    /\ UNCHANGED <<rvars, lvars>>

(***************************************************************************)
(* Inputs                                                                  *)
(***************************************************************************)
GroupNames == {"g", "h"}

AttrLists == {<<StringAttr("a", "1")>>, <<StringAttr("b", "2")>>}

RecordInputs ==
    { Record(<<>>),
      Record(<<StringAttr("x", "1")>>),
      Record(<<StringAttr("x", "1"), StringAttr("x", "2"),
               GroupAttr("q", <<StringAttr("y", "2")>>)>>),
      Record(<<StringAttr("m", MultilineText), StringAttr("x", "1")>>) }

OptionInputs ==
    [ReplaceAttr : HookModes, SortKeys : BOOLEAN, NewLineAfterLog : {FALSE},
     StringerFormatter : {FALSE}, AddSource : {FALSE}]

ConcGroupNames == {"g"}

ConcAttrLists == {<<StringAttr("a", "1")>>}

ConcRecordInputs == {Record(<<StringAttr("x", "1")>>)}

ConcOptionInputs ==
    [ReplaceAttr : {"nil"}, SortKeys : {FALSE}, NewLineAfterLog : {FALSE},
     StringerFormatter : {FALSE}, AddSource : {FALSE}]

\* NewHandler: one handler without frames.
NewHandler(o, nprocs) ==
    /\ opts = o
    /\ handlers = <<[goas |-> <<>>, mu |-> 0]>>
    /\ derived = <<[parent |-> 0, goa |-> groupFrame("")]>>
    /\ proc = [p \in 1..nprocs |-> IdleProc]
    /\ sinkLog = [p \in 1..nprocs |-> <<>>]

(***************************************************************************)
(* Spec: one goroutine derives handlers and logs records, over all option  *)
(* choices.                                                                *)
(***************************************************************************)
Init ==
    /\ \E o \in OptionInputs : NewHandler(o, 1)
    /\ RenderOff

Next ==
    \/ \E p \in Procs, h \in Handlers, s \in GroupNames \cup {""} : WithGroup(p, h, s, MaxHandlers)
    \/ \E p \in Procs, h \in Handlers, as \in AttrLists \cup {<<>>} : WithAttrs(p, h, as, MaxHandlers)
    \/ \E p \in Procs, h \in Handlers, r \in RecordInputs : Handle(p, h, r)
    \/ \E p \in Procs : muLock(p)
    \/ \E p \in Procs : outWriteBegin(p)
    \/ \E p \in Procs, err \in WriteErrors : outWriteEnd(p, err)
    \/ \E p \in Procs : HandleReturn(p)

Spec == Init /\ [][Next]_vars

(***************************************************************************)
(* SpecConc: several goroutines use the handlers at once.                  *)
(***************************************************************************)
InitConc ==
    /\ \E o \in ConcOptionInputs : NewHandler(o, NumProcs)
    /\ RenderOff

NextConc ==
    \/ \E p \in Procs, h \in Handlers, s \in ConcGroupNames \cup {""} : WithGroup(p, h, s, ConcHandlers)
    \/ \E p \in Procs, h \in Handlers, as \in ConcAttrLists \cup {<<>>} : WithAttrs(p, h, as, ConcHandlers)
    \/ \E p \in Procs, h \in Handlers, r \in ConcRecordInputs : Handle(p, h, r)
    \/ \E p \in Procs : muLock(p)
    \/ \E p \in Procs : outWriteBegin(p)
    \/ \E p \in Procs, err \in WriteErrors : outWriteEnd(p, err)
    \/ \E p \in Procs : HandleReturn(p)

SpecConc == InitConc /\ [][NextConc]_vars

(***************************************************************************)
(* SpecFormat: one handler, derived earlier by the With* calls that give   *)
(* it one of the frame lists of FrameInputs, logs records of every value   *)
(* kind under every option choice.                                         *)
(***************************************************************************)
FrameInputs ==
    { <<>>,
      <<groupFrame("g")>>,
      <<attrsFrame(<<StringAttr("a", "1")>>)>>,
      <<attrsFrame(<<GroupAttr("h", <<>>)>>)>>,
      <<attrsFrame(<<LogValuerAttr("q", "group")>>)>>,
      <<groupFrame("g"), attrsFrame(<<StringAttr("a", "1")>>)>> }

FormatRecord(msg, attrs) == [Level |-> "INFO", Message |-> msg, Attrs |-> attrs]

FormatRecordInputs ==
    { FormatRecord(msg, attrs) :
        msg \in {"msg", MultilineText},
        attrs \in { <<>>,
                    <<StringAttr("x", "1")>>,
                    <<StringAttr("x", "{}")>>,
                    <<StringAttr("m", MultilineText), AnyAttr("x", "7")>>,
                    <<AnyAttr("x", "[1]")>>,
                    <<LogValuerAttr("q", "group")>>,
                    <<LogValuerAttr("q", "panic"), StringAttr("x", "1")>>,
                    <<AnyAttr("x", "[1 2]"), StringAttr("b", "2")>>,
                    <<GroupAttr("q", <<StringAttr("y", MultilineText)>>)>>,
                    <<GroupAttr("q", <<StringAttr("y", "2"), StringAttr("b", "1")>>),
                      StringAttr("a", "3")>> } }

FormatOptionInputs ==
    [ReplaceAttr : FormatHookModes, SortKeys : BOOLEAN, NewLineAfterLog : BOOLEAN,
     StringerFormatter : {FALSE}, AddSource : BOOLEAN]

InitFormat ==
    /\ opts \in FormatOptionInputs
    /\ \E goas \in FrameInputs : handlers = <<[goas |-> goas, mu |-> 0]>>
    /\ derived = <<[parent |-> 0, goa |-> groupFrame("")]>>
    /\ proc = [p \in 1..1 |-> IdleProc]
    /\ sinkLog = [p \in 1..1 |-> <<>>]
    /\ RenderOff

NextFormat ==
    \/ \E p \in Procs, h \in Handlers, r \in FormatRecordInputs : Handle(p, h, r)
    \/ \E p \in Procs : muLock(p)
    \/ \E p \in Procs : outWriteBegin(p)
    \/ \E p \in Procs, err \in WriteErrors : outWriteEnd(p, err)
    \/ \E p \in Procs : HandleReturn(p)

SpecFormat == InitFormat /\ [][NextFormat]_vars

(***************************************************************************)
(* The value renderer.                                                     *)
(*                                                                         *)
(* A value graph is a heap of composite nodes (struct, slice or map), each *)
(* with at most one field, element or map value: its slot.  A slot is      *)
(*   [t |-> "val", to |-> n]   the composite n itself (a map or slice is a *)
(*                             reference, a struct is held inline),        *)
(*   [t |-> "ptr", to |-> n]   a non-nil pointer to node n,                *)
(*   "nilptr", "int", "other"  a nil pointer, a number, a chan or func,    *)
(*   "text", "stringer"        a value with MarshalText, with String,      *)
(*   "none"                    no field or element at all,                 *)
(* and boxed says that the slot's static type is an interface ("nilif" is  *)
(* the nil interface).  The renderer's recursion is run step by step with  *)
(* the composites whose closing brace is pending on fstack.                *)
(***************************************************************************)
NodeKinds == {"struct", "slice", "map"}

Slot(t, to, boxed) == [t |-> t, to |-> to, boxed |-> boxed]

LeafSlots ==
    {Slot(t, 0, bx) : t \in {"int", "nilptr", "other", "text", "stringer"}, bx \in BOOLEAN}
    \cup {Slot("nilif", 0, TRUE), NoSlot}

RefSlots(n) == {Slot(t, n, bx) : t \in {"val", "ptr"}, bx \in BOOLEAN}

\* The Go runtime's stack limit, in nested composites: more than any
\* terminating render of a graph of MaxNodes nodes needs.
StackLimit == 2 * MaxNodes + 2

\* A cycle of the graph must pass through a pointer, a map or a slice: a
\* struct cannot hold itself by value.
Realizable(hp) ==
    \A j \in 1..Len(hp) :
        (hp[Len(hp)].slot.t \in {"val", "ptr"} /\ hp[Len(hp)].slot.to = j) =>
            \E i \in j..Len(hp) : hp[i].kind # "struct" \/ hp[i].slot.t = "ptr"

\* visitKey{ptr: v.Pointer(), typ: v.Type()} of a pointer to node n.
visitKey(n) == <<n, heap[n].kind>>

RTok(t, n) == [t |-> t, n |-> n]

\* reducePointerValue on a map value: every pointer level is followed; a
\* nil pointer leaves the zero reflect.Value.  An interface-typed value is
\* no pointer and is left alone.
reducePointerValue(s) ==
    IF s.boxed THEN s
    ELSE CASE s.t = "ptr" -> Slot("val", s.to, FALSE)
           [] s.t = "nilptr" -> Slot("zero", 0, FALSE)
           [] OTHER -> s

\* formatValueInline, case slog.KindAny: the capabilities, the nil
\* interface, then reducePointerTypeValue and the switch on the kind.
formatValueInlineAny ==
    /\ status = "start"
    /\ CASE root.t = "text" ->
              /\ out' = Append(out, RTok("text", 0)) /\ status' = "done" /\ UNCHANGED cur
         [] root.t = "stringer" ->
              /\ out' = Append(out, RTok(IF opts.StringerFormatter THEN "string" ELSE "int", 0))
              /\ status' = "done" /\ UNCHANGED cur
         [] root.t = "nilif" ->
              /\ out' = Append(out, RTok("nil", 0)) /\ status' = "done" /\ UNCHANGED cur
         [] root.t = "nilptr" ->
              /\ out' = Append(out, RTok("nil", 0)) /\ status' = "done" /\ UNCHANGED cur
         [] root.t = "ptr" ->
              /\ out' = Append(out, RTok("star", root.to))
              /\ cur' = Slot("val", root.to, FALSE) /\ status' = "enter"
         [] root.t = "val" ->
              /\ cur' = Slot("val", root.to, FALSE) /\ status' = "enter" /\ UNCHANGED out
         [] OTHER ->
              /\ out' = Append(out, RTok(root.t, 0)) /\ status' = "done" /\ UNCHANGED cur
    /\ UNCHANGED <<heap, root, fstack, vi, expanded>>
    /\ UNCHANGED <<hvars, lvars>>

\* The pointer case of elementType: nil, seen before, or first met.
elementTypePointerNoMark(s) ==
    IF visitKey(s.to) \in vi
    THEN /\ out' = Append(out, RTok("placeholder", s.to))
         /\ expanded' = Append(expanded, [key |-> visitKey(s.to), how |-> "placeholder"])
         /\ status' = "ret"
         /\ UNCHANGED <<cur, vi>>
    ELSE /\ expanded' = Append(expanded, [key |-> visitKey(s.to), how |-> "expand"])
         /\ cur' = Slot("val", s.to, FALSE)
         /\ status' = "elem"
         /\ UNCHANGED <<out, vi>>

elementTypePointer(s) ==
    IF visitKey(s.to) \in vi
    THEN /\ out' = Append(out, RTok("placeholder", s.to))
         /\ expanded' = Append(expanded, [key |-> visitKey(s.to), how |-> "placeholder"])
         /\ status' = "ret"
         /\ UNCHANGED <<cur, vi>>
    ELSE /\ vi' = vi \cup {visitKey(s.to)}
         /\ expanded' = Append(expanded, [key |-> visitKey(s.to), how |-> "expand"])
         /\ cur' = Slot("val", s.to, FALSE)
         /\ status' = "elem"
         /\ UNCHANGED out

\* elementType on the value cur.
elementType ==
    /\ status = "elem"
    /\ CASE cur.t = "zero" ->
              \* v.Type() on the zero reflect.Value panics
              /\ status' = "panic" /\ UNCHANGED <<cur, vi, out, expanded>>
         [] cur.t = "text" /\ ~cur.boxed ->
              /\ out' = Append(out, RTok("text", 0)) /\ status' = "ret"
              /\ UNCHANGED <<cur, vi, expanded>>
         [] cur.t = "stringer" /\ opts.StringerFormatter ->
              /\ out' = Append(out, RTok("string", 0)) /\ status' = "ret"
              /\ UNCHANGED <<cur, vi, expanded>>
         [] cur.t = "nilif" ->
              /\ out' = Append(out, RTok("nil", 0)) /\ status' = "ret"
              /\ UNCHANGED <<cur, vi, expanded>>
         [] cur.boxed /\ cur.t # "nilif" /\ ~(cur.t = "stringer" /\ opts.StringerFormatter) ->
              \* case reflect.Interface: unwrap and dispatch again
              /\ cur' = [cur EXCEPT !.boxed = FALSE] /\ UNCHANGED <<status, vi, out, expanded>>
         [] ~cur.boxed /\ cur.t = "val" ->
              /\ status' = "enter" /\ UNCHANGED <<cur, vi, out, expanded>>
         [] ~cur.boxed /\ cur.t = "ptr" -> elementTypePointer(cur)
         [] ~cur.boxed /\ cur.t = "nilptr" ->
              /\ out' = Append(out, RTok("nil", 0)) /\ status' = "ret"
              /\ UNCHANGED <<cur, vi, expanded>>
         [] ~cur.boxed /\ cur.t = "stringer" /\ ~opts.StringerFormatter ->
              /\ out' = Append(out, RTok("int", 0)) /\ status' = "ret"
              /\ UNCHANGED <<cur, vi, expanded>>
         [] ~cur.boxed /\ cur.t \in {"int", "other"} ->
              /\ out' = Append(out, RTok(cur.t, 0)) /\ status' = "ret"
              /\ UNCHANGED <<cur, vi, expanded>>
         [] ~cur.boxed /\ cur.t = "none" ->
              /\ status' = "ret" /\ UNCHANGED <<cur, vi, out, expanded>>
    /\ UNCHANGED <<heap, root, fstack>>
    /\ UNCHANGED <<hvars, lvars>>

\* A call of formatStruct, formatSlice or formatMap on node n: the header
\* is written and the node's slot, if any, is rendered next.  The call
\* needs a stack frame.
enterComposite(n, child) ==
    IF Len(fstack) >= StackLimit
    THEN /\ status' = "overflow"
         /\ UNCHANGED <<fstack, cur, out>>
    ELSE /\ fstack' = Append(fstack, n)
         /\ out' = Append(out, RTok("open", n))
         /\ cur' = child
         /\ status' = IF child.t = "none" THEN "ret" ELSE "elem"

formatStruct ==
    /\ status = "enter"
    /\ heap[cur.to].kind = "struct"
    /\ enterComposite(cur.to, heap[cur.to].slot)
    /\ UNCHANGED <<heap, root, vi, expanded>>
    /\ UNCHANGED <<hvars, lvars>>

formatSlice ==
    /\ status = "enter"
    /\ heap[cur.to].kind = "slice"
    /\ enterComposite(cur.to, heap[cur.to].slot)
    /\ UNCHANGED <<heap, root, vi, expanded>>
    /\ UNCHANGED <<hvars, lvars>>

\* formatMap reduces the pointers of the map value before elementType.
formatMap ==
    /\ status = "enter"
    /\ heap[cur.to].kind = "map"
    /\ enterComposite(cur.to, reducePointerValue(heap[cur.to].slot))
    /\ UNCHANGED <<heap, root, vi, expanded>>
    /\ UNCHANGED <<hvars, lvars>>

\* A composite's element is done: the closing brace, and back to the
\* caller; with no caller left the render call returns.
formatReturn ==
    /\ status = "ret"
    /\ IF Len(fstack) = 0
       THEN /\ status' = "done" /\ UNCHANGED <<fstack, out>>
       ELSE /\ out' = Append(out, RTok("close", fstack[Len(fstack)]))
            /\ fstack' = SubSeq(fstack, 1, Len(fstack) - 1)
            /\ UNCHANGED status
    /\ UNCHANGED <<heap, root, cur, vi, expanded>>
    /\ UNCHANGED <<hvars, lvars>>

RenderOptionInputs ==
    [ReplaceAttr : {"nil"}, SortKeys : {FALSE}, NewLineAfterLog : {FALSE},
     StringerFormatter : BOOLEAN]

\* The graphs: a chain of up to MaxNodes nodes whose last slot is a leaf or
\* points back into the chain; the attribute's value is a leaf, the first
\* node or a pointer to it.
ChainHeap(kinds, vias, last) ==
    [i \in 1..Len(kinds) |->
        [kind |-> kinds[i],
         slot |-> IF i < Len(kinds) THEN Slot(vias[i].t, i + 1, vias[i].boxed) ELSE last]]

\* An interface-typed slot matters for a map value, which formatMap reduces
\* itself, and for the last slot; on the way through a struct or a slice it
\* only adds the unwrapping step, so the chain boxes map values only.  The
\* StringerFormatter option is switched on for values with a Stringer only.
BoxedAtMaps(kinds, vias) == \A i \in DOMAIN vias : vias[i].boxed => kinds[i] = "map"

HasStringer == root.t = "stringer" \/ (Len(heap) > 0 /\ heap[Len(heap)].slot.t = "stringer")

InitRender ==
    /\ \E o \in RenderOptionInputs : NewHandler(o, 1)
    /\ \E len \in 0..MaxNodes :
         \E kinds \in [1..len -> NodeKinds],
            vias \in [1..(len - 1) -> [t : {"val", "ptr"}, boxed : BOOLEAN]],
            last \in LeafSlots \cup UNION {RefSlots(n) : n \in 1..len} :
              /\ heap = ChainHeap(kinds, vias, last)
              /\ BoxedAtMaps(kinds, vias)
              /\ Realizable(heap)
              /\ root \in (IF len = 0
                           THEN {s \in LeafSlots : ~s.boxed /\ s.t # "none"} \cup {Slot("nilif", 0, TRUE)}
                           ELSE {Slot("val", 1, FALSE), Slot("ptr", 1, FALSE)})
    /\ opts.StringerFormatter => HasStringer
    /\ fstack = <<>>
    /\ cur = root
    /\ vi = {}
    /\ out = <<>>
    /\ expanded = <<>>
    /\ status = "start"
    /\ loc = NoLocals

NextRender ==
    \/ formatValueInlineAny
    \/ elementType
    \/ formatStruct
    \/ formatSlice
    \/ formatMap
    \/ formatReturn

SpecRender == InitRender /\ [][NextRender]_vars

(***************************************************************************)
(* SpecSlice: formatSlice on a slice of n numbers under every configured   *)
(* MaxSlicePrintSize, the loop run one element at a time.  The slice is    *)
(* root = Slot("ints", n, FALSE); cur = Slot("int", i, FALSE) is the loop  *)
(* index i, and the token of element i is RTok("int", i).                  *)
(***************************************************************************)
DefaultMaxSlicePrintSize == 50

\* NewHandler: an unset (zero) size becomes the default.
resolveMaxSlicePrintSize(m) == IF m = 0 THEN DefaultMaxSlicePrintSize ELSE m

\* int(u) of an unsigned u: the same bits read as a signed number.
toInt(u) == IF u >= 2 ^ (IntBits - 1) THEN u - 2 ^ IntBits ELSE u

min(a, b) == IF a < b THEN a ELSE b

\* maxItems := min(int(h.opts.MaxSlicePrintSize), sv.Len())
maxItems(n) == min(toInt(opts.MaxSlicePrintSize), n)

MaxSlicePrintSizeInputs == {0, 1, 4, 50, 2 ^ (IntBits - 1), 2 ^ IntBits - 1}

SliceLens == {0, 1, 3, 11, 51}

InitSlice ==
    /\ \E m \in MaxSlicePrintSizeInputs :
         opts = [ReplaceAttr |-> "nil", SortKeys |-> FALSE, NewLineAfterLog |-> FALSE,
                 StringerFormatter |-> FALSE,
                 MaxSlicePrintSize |-> resolveMaxSlicePrintSize(m)]
    /\ handlers = <<[goas |-> <<>>, mu |-> 0]>>
    /\ derived = <<[parent |-> 0, goa |-> groupFrame("")]>>
    /\ proc = [p \in 1..1 |-> IdleProc]
    /\ sinkLog = [p \in 1..1 |-> <<>>]
    /\ heap = <<>>
    /\ \E n \in SliceLens : root = Slot("ints", n, FALSE)
    /\ fstack = <<>>
    /\ cur = NoSlot
    /\ vi = {}
    /\ out = <<>>
    /\ expanded = <<>>
    /\ status = "start"
    /\ loc = NoLocals

\* The count, the type and the opening brace.
formatSliceOpen ==
    /\ status = "start"
    /\ out' = <<RTok("count", root.to), RTok("open", 0)>>
    /\ cur' = Slot("int", 0, FALSE)
    /\ status' = "loop"
    /\ UNCHANGED <<heap, root, fstack, vi, expanded>>
    /\ UNCHANGED <<hvars, lvars>>

\* for i := 0; i < maxItems; i++ : element i.
formatSliceElem ==
    /\ status = "loop"
    /\ cur.to < maxItems(root.to)
    /\ out' = Append(out, RTok("int", cur.to))
    /\ cur' = Slot("int", cur.to + 1, FALSE)
    /\ UNCHANGED <<heap, root, fstack, vi, expanded, status>>
    /\ UNCHANGED <<hvars, lvars>>

\* After the loop: the "..." marker if sv.Len() > maxItems, the closing brace.
formatSliceClose ==
    /\ status = "loop"
    /\ ~(cur.to < maxItems(root.to))
    /\ out' = out \o (IF root.to > maxItems(root.to) THEN <<RTok("more", 0)>> ELSE <<>>)
                  \o <<RTok("close", 0)>>
    /\ status' = "done"
    /\ UNCHANGED <<heap, root, fstack, cur, vi, expanded>>
    /\ UNCHANGED <<hvars, lvars>>

NextSlice ==
    \/ formatSliceOpen
    \/ formatSliceElem
    \/ formatSliceClose

SpecSlice == InitSlice /\ [][NextSlice]_vars

(***************************************************************************)
(* SpecMap: formatMap on one map, called twice.  A map is heap[1], a node  *)
(* of kind "map" with its set of entries; a key is its dynamic type and    *)
(* its text (fmt.Sprint).  rv.MapKeys() gives the keys in any order.       *)
(***************************************************************************)
MapKey(typ, text) == [typ |-> typ, text |-> text]

MapEntry(k, v) == [k |-> k, v |-> v]

\* The key texts of the model in byte order.
MapKeyTexts == <<"0", "1", "2">>

textRank(t) == CHOOSE i \in 1..Len(MapKeyTexts) : MapKeyTexts[i] = t

\* fmt.Sprint(ks[i].Interface()) < fmt.Sprint(ks[j].Interface())
mapKeyLess(a, b) == textRank(a.text) < textRank(b.text)

\* sort.Slice on fewer than 12 elements: an insertion sort.
RECURSIVE sortSliceStep(_, _)
sortSliceStep(sorted, k) ==
    IF Len(sorted) > 0 /\ mapKeyLess(k, sorted[Len(sorted)])
    THEN Append(sortSliceStep(SubSeq(sorted, 1, Len(sorted) - 1), k), sorted[Len(sorted)])
    ELSE Append(sorted, k)

RECURSIVE sortSlice(_)
sortSlice(ks) ==
    IF Len(ks) = 0 THEN <<>>
    ELSE sortSliceStep(sortSlice(SubSeq(ks, 1, Len(ks) - 1)), ks[Len(ks)])

sortMapKeys(ks) == sortSlice(ks)

\* The orders rv.MapKeys() can return the keys in.
MapKeysOrders(m) ==
    LET keys == {e.k : e \in m}
    IN  {ks \in [1..Cardinality(keys) -> keys] : \A i, j \in DOMAIN ks : ks[i] = ks[j] => i = j}

MapIndex(m, k) == (CHOOSE e \in m : e.k = k).v

MapTok(k, v) == [t |-> "entry", n |-> 0, k |-> k.text, v |-> v]

MapInputs ==
    { {},
      {MapEntry(MapKey("int", "0"), "a"), MapEntry(MapKey("int", "1"), "b")},
      {MapEntry(MapKey("int", "2"), "a"), MapEntry(MapKey("int", "0"), "b"),
       MapEntry(MapKey("int", "1"), "c")},
      {MapEntry(MapKey("int", "1"), "a"), MapEntry(MapKey("string", "1"), "b")},
      {MapEntry(MapKey("int", "0"), "a"), MapEntry(MapKey("string", "1"), "b"),
       MapEntry(MapKey("int", "1"), "c"), MapEntry(MapKey("string", "2"), "d")} }

MapLocals(call, first) == [fn |-> "formatMap", call |-> call, sk |-> <<>>, i |-> 0, first |-> first]

InitMap ==
    /\ opts \in [ReplaceAttr : {"nil"}, SortKeys : BOOLEAN, NewLineAfterLog : {FALSE},
                 StringerFormatter : {FALSE}]
    /\ handlers = <<[goas |-> <<>>, mu |-> 0]>>
    /\ derived = <<[parent |-> 0, goa |-> groupFrame("")]>>
    /\ proc = [p \in 1..1 |-> IdleProc]
    /\ sinkLog = [p \in 1..1 |-> <<>>]
    /\ \E m \in MapInputs : heap = <<[kind |-> "map", entries |-> m]>>
    /\ root = Slot("val", 1, FALSE)
    /\ fstack = <<>>
    /\ cur = NoSlot
    /\ vi = {}
    /\ out = <<>>
    /\ expanded = <<>>
    /\ status = "start"
    /\ loc = MapLocals(1, <<>>)

\* formatMap up to the loop: the header, and sk := h.sortMapKeys(sv).
formatMapOpen ==
    /\ status = "start"
    /\ out' = <<RTok("count", Cardinality(heap[1].entries)), RTok("open", 1)>>
    /\ \E ks \in MapKeysOrders(heap[1].entries) :
         loc' = [loc EXCEPT !.sk = sortMapKeys(ks), !.i = 1]
    /\ status' = "loop"
    /\ UNCHANGED <<heap, root, fstack, cur, vi, expanded>>
    /\ UNCHANGED hvars

\* for i, k := range sk : key=value.
formatMapEntry ==
    /\ status = "loop"
    /\ loc.i <= Len(loc.sk)
    /\ out' = Append(out, MapTok(loc.sk[loc.i], MapIndex(heap[1].entries, loc.sk[loc.i])))
    /\ loc' = [loc EXCEPT !.i = @ + 1]
    /\ UNCHANGED <<heap, root, fstack, cur, vi, expanded, status>>
    /\ UNCHANGED hvars

formatMapClose ==
    /\ status = "loop"
    /\ loc.i > Len(loc.sk)
    /\ out' = Append(out, RTok("close", 1))
    /\ status' = "returned"
    /\ UNCHANGED <<heap, root, fstack, cur, vi, expanded, loc>>
    /\ UNCHANGED hvars

\* The same map is rendered a second time; the first text is kept.
formatMapAgain ==
    /\ status = "returned"
    /\ loc.call = 1
    /\ loc' = MapLocals(2, out)
    /\ out' = <<>>
    /\ status' = "start"
    /\ UNCHANGED <<heap, root, fstack, cur, vi, expanded>>
    /\ UNCHANGED hvars

NextMap ==
    \/ formatMapOpen
    \/ formatMapEntry
    \/ formatMapClose
    \/ formatMapAgain

SpecMap == InitMap /\ [][NextMap]_vars

(***************************************************************************)
(* SpecError: formatError on a chain of errors, each wrapping the next as  *)
(* its single cause (errors.Unwrap); the last one is the leaf.  A message  *)
(* is a sequence of characters.  heap[i] is the i-th error of the chain,   *)
(* outermost first.                                                        *)
(***************************************************************************)
ColonSpace == <<":", " ">>

\* strings.CutSuffix(s, suffix), the string result.
CutSuffix(s, suffix) ==
    IF Len(s) >= Len(suffix) /\ SubSeq(s, Len(s) - Len(suffix) + 1, Len(s)) = suffix
    THEN SubSeq(s, 1, Len(s) - Len(suffix))
    ELSE s

\* strings.Join(parts, sep)
RECURSIVE stringsJoinSep(_, _)
stringsJoinSep(parts, sep) ==
    IF Len(parts) = 0 THEN <<>>
    ELSE IF Len(parts) = 1 THEN parts[1]
    ELSE parts[1] \o sep \o stringsJoinSep(Tail(parts), sep)

\* How a wrapper builds its message from its cause's message:
\* fmt.Errorf(prefix + ": %w", cause), fmt.Errorf("%w", cause), or an Error
\* method that does not mention the cause.
WrapStyles == {"colon", "same", "own"}

Prefixes == {<<>>, <<"e">>, <<"e", ":", " ">>}

LeafMessages == {<<"b">>, <<>>, <<"e", ":", " ", "b">>}

wrapMessage(w, causeMsg) ==
    CASE w.style = "colon" -> w.prefix \o ColonSpace \o causeMsg
      [] w.style = "same" -> causeMsg
      [] w.style = "own" -> w.prefix

\* The messages of a chain, outermost first, from the wrappers ws and the
\* leaf's message.
RECURSIVE chainMessages(_, _)
chainMessages(ws, leaf) ==
    IF Len(ws) = 0 THEN <<leaf>>
    ELSE LET rest == chainMessages(Tail(ws), leaf)
         IN  <<wrapMessage(ws[1], rest[1])>> \o rest

ErrorLocals(i, parts) == [fn |-> "formatError", i |-> i, parts |-> parts]

InitError ==
    /\ opts \in RenderOptionInputs
    /\ ~opts.StringerFormatter
    /\ handlers = <<[goas |-> <<>>, mu |-> 0]>>
    /\ derived = <<[parent |-> 0, goa |-> groupFrame("")]>>
    /\ proc = [p \in 1..1 |-> IdleProc]
    /\ sinkLog = [p \in 1..1 |-> <<>>]
    /\ \E n \in 0..(MaxChain - 1) :
         \E ws \in [1..n -> [style : WrapStyles, prefix : Prefixes]], leaf \in LeafMessages :
            LET msgs == chainMessages(ws, leaf)
            IN  heap = [i \in 1..(n + 1) |->
                          [kind |-> "error", msg |-> msgs[i],
                           style |-> IF i <= n THEN ws[i].style ELSE "leaf",
                           prefix |-> IF i <= n THEN ws[i].prefix ELSE <<>>]]
    /\ root = Slot("val", 1, FALSE)
    /\ fstack = <<>>
    /\ cur = NoSlot
    /\ vi = {}
    /\ out = <<>>
    /\ expanded = <<>>
    /\ status = "start"
    /\ loc = ErrorLocals(1, <<>>)

\* collectErrors(err) on a wrapper: its message without the cause's message
\* and without a ": " before it is a part, unless it is empty; then the
\* cause.
collectErrorsWrapperNoColonCut ==
    /\ status = "start"
    /\ loc.i < Len(heap)
    /\ LET errMsg == CutSuffix(heap[loc.i].msg, heap[loc.i + 1].msg)
       IN  loc' = ErrorLocals(loc.i + 1,
                              IF errMsg # <<>> THEN Append(loc.parts, errMsg) ELSE loc.parts)
    /\ UNCHANGED <<heap, root, fstack, cur, vi, out, expanded, status>>
    /\ UNCHANGED hvars

collectErrorsWrapper ==
    /\ status = "start"
    /\ loc.i < Len(heap)
    /\ LET errMsg == CutSuffix(CutSuffix(heap[loc.i].msg, heap[loc.i + 1].msg), ColonSpace)
       IN  loc' = ErrorLocals(loc.i + 1,
                              IF errMsg # <<>> THEN Append(loc.parts, errMsg) ELSE loc.parts)
    /\ UNCHANGED <<heap, root, fstack, cur, vi, out, expanded, status>>
    /\ UNCHANGED hvars

\* collectErrors(err) on the leaf: its whole message is a part.
collectErrorsLeaf ==
    /\ status = "start"
    /\ loc.i = Len(heap)
    /\ loc' = ErrorLocals(loc.i, Append(loc.parts, heap[loc.i].msg))
    /\ status' = "collected"
    /\ UNCHANGED <<heap, root, fstack, cur, vi, out, expanded>>
    /\ UNCHANGED hvars

\* result := strings.Join(parts, ": ")
formatErrorJoin ==
    /\ status = "collected"
    /\ out' = stringsJoinSep(loc.parts, ColonSpace)
    /\ status' = "done"
    /\ UNCHANGED <<heap, root, fstack, cur, vi, expanded, loc>>
    /\ UNCHANGED hvars

NextError ==
    \/ collectErrorsWrapper
    \/ collectErrorsLeaf
    \/ formatErrorJoin

SpecError == InitError /\ [][NextError]_vars

(***************************************************************************)
(* SpecOptions: NewHandler resolves the configured options.  loc.o is the  *)
(* argument o: the nil pointer or an Options value; opts is h.opts.  The   *)
(* palette (type Color, the table colors and the color names) is not part  *)
(* of the source at hand: Color is a uint and the palette holds the eight  *)
(* named colors after the unknown color 0.                                 *)
(***************************************************************************)
PaletteSize == 9

Red == 2

Green == 3

Yellow == 4

Blue == 5

DefaultTimeFormat == "[15:04:05]"

\* ensureValidColor: int(c) is the color's bits read as a signed number.
ensureValidColor(c, defaultColor) ==
    IF c > 0 /\ toInt(c) < PaletteSize THEN c ELSE defaultColor

NilOptions == [nil |-> TRUE]

ColorInputs == {0, Red, PaletteSize - 1, PaletteSize, 2 ^ (IntBits - 1)}

\* The Options values: HandlerOptions nil or set, with a Level or without.
OptionsInputs ==
    {NilOptions} \cup
    { o \in [nil : {FALSE}, HandlerOptions : {"nil", "set"}, Level : {"nil", "INFO", "WARN"},
             MaxSlicePrintSize : {0, 10}, TimeFormat : {"", "[04:05]"},
             DebugColor : ColorInputs, InfoColor : ColorInputs,
             WarnColor : ColorInputs, ErrorColor : ColorInputs] :
        o.HandlerOptions = "nil" => o.Level = "nil" }

resolveOptions(o) ==
    IF ~o.nil
    THEN [Level |-> IF o.HandlerOptions # "nil"
                    THEN (IF o.Level = "nil" THEN "INFO" ELSE o.Level)
                    ELSE "INFO",
          MaxSlicePrintSize |-> resolveMaxSlicePrintSize(o.MaxSlicePrintSize),
          TimeFormat |-> IF o.TimeFormat = "" THEN DefaultTimeFormat ELSE o.TimeFormat,
          DebugColor |-> ensureValidColor(o.DebugColor, Blue),
          InfoColor |-> ensureValidColor(o.InfoColor, Green),
          WarnColor |-> ensureValidColor(o.WarnColor, Yellow),
          ErrorColor |-> ensureValidColor(o.ErrorColor, Red)]
    ELSE [Level |-> "INFO",
          MaxSlicePrintSize |-> DefaultMaxSlicePrintSize,
          TimeFormat |-> DefaultTimeFormat,
          DebugColor |-> Blue,
          InfoColor |-> Green,
          WarnColor |-> Yellow,
          ErrorColor |-> Red]

\* Before NewHandler runs there is no handler: h.opts is the zero Options.
InitOptions ==
    /\ opts = [Level |-> "nil", MaxSlicePrintSize |-> 0, TimeFormat |-> "",
               DebugColor |-> 0, InfoColor |-> 0, WarnColor |-> 0, ErrorColor |-> 0]
    /\ handlers = <<>>
    /\ derived = <<>>
    /\ proc = [p \in 1..1 |-> IdleProc]
    /\ sinkLog = [p \in 1..1 |-> <<>>]
    /\ heap = <<>>
    /\ root = NoSlot
    /\ fstack = <<>>
    /\ cur = NoSlot
    /\ vi = {}
    /\ out = <<>>
    /\ expanded = <<>>
    /\ status = "start"
    /\ \E o \in OptionsInputs : loc = [fn |-> "NewHandler", o |-> o]

NewHandlerCall ==
    /\ status = "start"
    /\ loc.fn = "NewHandler"
    /\ opts' = resolveOptions(loc.o)
    /\ handlers' = <<[goas |-> <<>>, mu |-> 0]>>
    /\ derived' = <<[parent |-> 0, goa |-> groupFrame("")]>>
    /\ status' = "done"
    /\ UNCHANGED <<proc, sinkLog, heap, root, fstack, cur, vi, out, expanded, loc>>

NextOptions == NewHandlerCall

SpecOptions == InitOptions /\ [][NextOptions]_vars

(***************************************************************************)
(* SpecDerive: WithGroup and WithAttrs with their results.  NewHandler was *)
(* called twice, each handler with options and a sink of its own; here a   *)
(* handler is [goas, mu, opts, out].  loc holds the last call: the         *)
(* receiver h, the argument, the handlers before the call and the result.  *)
(***************************************************************************)
Sinks == {"w1", "w2"}

DeriveOptionInputs == {o \in FormatOptionInputs : o.ReplaceAttr = "nil" /\ ~o.AddSource /\ ~o.NewLineAfterLog}

rootHandler(o, w) == [goas |-> <<>>, mu |-> 0, opts |-> o, out |-> w]

\* h2 of withGroupOrAttrs: opts: h.opts, out: h.out, a fresh frame slice.
h2FirstSink(h, goa) ==
    [goas |-> Append(handlers[h].goas, goa), mu |-> 0,
     opts |-> handlers[h].opts, out |-> handlers[1].out]

h2(h, goa) ==
    [goas |-> Append(handlers[h].goas, goa), mu |-> 0,
     opts |-> handlers[h].opts, out |-> handlers[h].out]

DeriveLocals(fn, h, s, as, ret) ==
    [fn |-> fn, h |-> h, s |-> s, as |-> as, before |-> handlers, ret |-> ret]

InitDerive ==
    /\ \E o1, o2 \in DeriveOptionInputs, w1, w2 \in Sinks :
         /\ handlers = <<rootHandler(o1, w1), rootHandler(o2, w2)>>
         /\ opts = o1
    /\ derived = <<[parent |-> 0, goa |-> groupFrame("")], [parent |-> 0, goa |-> groupFrame("")]>>
    /\ proc = [p \in 1..1 |-> IdleProc]
    /\ sinkLog = [p \in 1..1 |-> <<>>]
    /\ RenderOff

\* h.WithGroup(s), with the handler it returns.
WithGroupCall(h, s) ==
    /\ IF s = ""
       THEN /\ loc' = DeriveLocals("WithGroup", h, s, <<>>, h)
            /\ UNCHANGED <<handlers, derived>>
       ELSE /\ Len(handlers) < MaxHandlers
            /\ handlers' = Append(handlers, h2(h, groupFrame(s)))
            /\ derived' = Append(derived, [parent |-> h, goa |-> groupFrame(s)])
            /\ loc' = DeriveLocals("WithGroup", h, s, <<>>, Len(handlers) + 1)
    /\ UNCHANGED <<opts, proc, sinkLog>>
    /\ UNCHANGED rvars

\* h.WithAttrs(as), with the handler it returns.
WithAttrsCall(h, as) ==
    /\ IF Len(as) = 0
       THEN /\ loc' = DeriveLocals("WithAttrs", h, "", as, h)
            /\ UNCHANGED <<handlers, derived>>
       ELSE /\ Len(handlers) < MaxHandlers
            /\ handlers' = Append(handlers, h2(h, attrsFrame(as)))
            /\ derived' = Append(derived, [parent |-> h, goa |-> attrsFrame(as)])
            /\ loc' = DeriveLocals("WithAttrs", h, "", as, Len(handlers) + 1)
    /\ UNCHANGED <<opts, proc, sinkLog>>
    /\ UNCHANGED rvars

NextDerive ==
    \/ \E h \in Handlers, s \in GroupNames \cup {""} : WithGroupCall(h, s)
    \/ \E h \in Handlers, as \in AttrLists \cup {<<>>} : WithAttrsCall(h, as)

SpecDerive == InitDerive /\ [][NextDerive]_vars

(***************************************************************************)
(* SpecColor: one record rendered by two handlers built from the same      *)
(* options, one with NoColor and one without.  Here the output is a        *)
(* sequence of text pieces; a piece of EscapeSequences is one terminal     *)
(* escape sequence.  A text of the record (message, string value) is a     *)
(* sequence of pieces as well and may hold escape sequences of its own.    *)
(* The color functions are not part of the source at hand: colorString     *)
(* puts the color's sequences before the text and the reset sequence after *)
(* it, and returns the text as it is in no-color mode or for no color.     *)
(***************************************************************************)
EscapeSequences == {"ESC[0m", "ESC[2m", "ESC[30m", "ESC[31m", "ESC[36m", "ESC[42m", "ESC[90m"}

colorString(noColor, b, codes) ==
    IF noColor \/ codes = <<>> THEN b ELSE codes \o b \o <<"ESC[0m">>

\* formatLogfmtAttrs on string and number attributes: " ", the gray "key=",
\* then formatValueInline: a string as it is, a number in cyan.
RECURSIVE formatLogfmtBytes(_, _)
formatLogfmtBytes(noColor, as) ==
    IF Len(as) = 0 THEN <<>>
    ELSE <<" ">>
         \o colorString(noColor, <<as[1].Key, "=">>, <<"ESC[90m">>)
         \o (IF as[1].Kind = "String" THEN as[1].Str
             ELSE colorString(noColor, as[1].Str, <<"ESC[36m">>))
         \o formatLogfmtBytes(noColor, Tail(as))

\* formatOneLine for a one-line record of level Info: the faint time, the
\* level badge, the message in the level's foreground (none for Info), the
\* attributes, the line break.
formatOneLineBytesRawTime(noColor, r) ==
    <<"ESC[2m", "[]", "ESC[0m", " ">>
    \o colorString(noColor, <<" ", r.Level, " ">>, <<"ESC[42m", "ESC[30m">>) \o <<" ">>
    \o colorString(noColor, r.Message, <<>>)
    \o formatLogfmtBytes(noColor, r.Attrs)
    \o <<"\n">>

formatOneLineBytes(noColor, r) ==
    colorString(noColor, <<"[]">>, <<"ESC[2m">>) \o <<" ">>
    \o colorString(noColor, <<" ", r.Level, " ">>, <<"ESC[42m", "ESC[30m">>) \o <<" ">>
    \o colorString(noColor, r.Message, <<>>)
    \o formatLogfmtBytes(noColor, r.Attrs)
    \o <<"\n">>

ColorTexts == {<<"t">>, <<"ESC[31m", "t", "ESC[0m">>}

ColorAttrInputs ==
    {[Key |-> k, Kind |-> kind, Str |-> s] :
        k \in {"foo", "count"}, kind \in {"String", "Int64"}, s \in ColorTexts}

InitColor ==
    /\ opts \in ConcOptionInputs
    /\ handlers = <<[goas |-> <<>>, mu |-> 0], [goas |-> <<>>, mu |-> 0]>>
    /\ derived = <<[parent |-> 0, goa |-> groupFrame("")], [parent |-> 0, goa |-> groupFrame("")]>>
    /\ proc = [p \in 1..1 |-> IdleProc]
    /\ sinkLog = [p \in 1..1 |-> <<>>]
    /\ heap = <<>>
    /\ root = NoSlot
    /\ fstack = <<>>
    /\ cur = NoSlot
    /\ vi = {}
    /\ out = <<>>
    /\ expanded = <<>>
    /\ status = "start"
    /\ \E msg \in ColorTexts, as \in {<<>>} \cup {<<a>> : a \in ColorAttrInputs}
                                       \cup {<<a, b>> : a, b \in ColorAttrInputs} :
         loc = [fn |-> "Handle", r |-> FormatRecord(msg, as), plain |-> <<>>, colored |-> <<>>]

\* Handle on the handler with NoColor.
HandleNoColor ==
    /\ status = "start"
    /\ loc' = [loc EXCEPT !.plain = formatOneLineBytes(TRUE, loc.r)]
    /\ status' = "plain"
    /\ UNCHANGED <<hvars, heap, root, fstack, cur, vi, out, expanded>>

\* Handle of the same record on the handler with colors.
HandleColor ==
    /\ status = "plain"
    /\ loc' = [loc EXCEPT !.colored = formatOneLineBytes(FALSE, loc.r)]
    /\ status' = "done"
    /\ UNCHANGED <<hvars, heap, root, fstack, cur, vi, out, expanded>>

NextColor ==
    \/ HandleNoColor
    \/ HandleColor

SpecColor == InitColor /\ [][NextColor]_vars

(***************************************************************************)
(* SpecShare: goroutines log through one handler whose frames hold bound   *)
(* attributes.  The list of a group attribute is a slice: a.Value.Group()  *)
(* returns the bound list itself, not a copy, so what colorize does to the *)
(* list it is handed is done to the handler's bound attribute.  loc.goas   *)
(* remembers the frames as WithAttrs bound them.  The handlers here have   *)
(* no group frames, so a bound attribute is a top-level attribute of the   *)
(* merged list.                                                            *)
(***************************************************************************)
\* colorize on the list of group a: sort.Sort(as) sorts the list in place,
\* and every group in it is handed to colorize in turn.
RECURSIVE colorizeInPlace(_)
colorizeInPlace(a) ==
    IF a.Kind = "Group"
    THEN LET ga == IF opts.SortKeys THEN sortSort(a.Group) ELSE a.Group
         IN  GroupAttr(a.Key, [i \in 1..Len(ga) |-> colorizeInPlace(ga[i])])
    ELSE a

\* The frames after formatOneLine: the bound attributes that went to the
\* block section have been through colorize.
goasAfterFormat(goas) ==
    [i \in 1..Len(goas) |->
        [goas[i] EXCEPT !.attrs =
            [j \in 1..Len(@) |-> IF isMultiline(@[j]) THEN colorizeInPlace(@[j]) ELSE @[j]]]]

ShareFrameInputs ==
    { <<attrsFrame(<<GroupAttr("q", <<StringAttr("y", MultilineText), StringAttr("b", "1")>>)>>)>>,
      <<attrsFrame(<<GroupAttr("q", <<StringAttr("y", "2"), StringAttr("b", "1")>>),
                     StringAttr("a", "1")>>)>>,
      <<attrsFrame(<<StringAttr("a", "1")>>),
        attrsFrame(<<GroupAttr("q", <<StringAttr("m", MultilineText),
                                      GroupAttr("h", <<StringAttr("x", "1"), StringAttr("b", "2")>>)>>)>>)>> }

InitShare ==
    /\ opts \in {o \in FormatOptionInputs : o.ReplaceAttr = "nil" /\ ~o.AddSource /\ ~o.NewLineAfterLog}
    /\ \E goas \in ShareFrameInputs :
         /\ handlers = <<[goas |-> goas, mu |-> 0]>>
         /\ loc = [fn |-> "Handle", goas |-> goas]
    /\ derived = <<[parent |-> 0, goa |-> groupFrame("")]>>
    /\ proc = [p \in 1..NumProcs |-> IdleProc]
    /\ sinkLog = [p \in 1..NumProcs |-> <<>>]
    /\ heap = <<>>
    /\ root = NoSlot
    /\ fstack = <<>>
    /\ cur = NoSlot
    /\ vi = {}
    /\ out = <<>>
    /\ expanded = <<>>
    /\ status = "off"

\* Handle, first part, with what formatOneLine does to the handler's frames.
HandleInPlace(p, h, r) ==
    /\ proc[p].pc \in {"idle", "done"}
    /\ proc' = [proc EXCEPT ![p] = [pc |-> "formatted", h |-> h, r |-> r,
                                    b |-> formatOneLine(handlers[h].goas, r),
                                    err |-> "nil", ret |-> "nil"]]
    /\ sinkLog' = [sinkLog EXCEPT ![p] = <<>>]
    /\ handlers' = [handlers EXCEPT ![h].goas = goasAfterFormat(@)]
    /\ UNCHANGED <<opts, derived>>
    /\ UNCHANGED <<rvars, lvars>>

NextShare ==
    \/ \E p \in Procs, h \in Handlers, r \in ConcRecordInputs \cup {Record(<<>>)} : HandleInPlace(p, h, r)
    \/ \E p \in Procs : muLock(p)
    \/ \E p \in Procs : outWriteBegin(p)
    \/ \E p \in Procs, err \in WriteErrors : outWriteEnd(p, err)
    \/ \E p \in Procs : HandleReturn(p)

SpecShare == InitShare /\ [][NextShare]_vars

(***************************************************************************)
(* SpecJSON: the renderers of a string value: formatValueInline on a       *)
(* string attribute and on a string reached by reflection, colorize on a   *)
(* string attribute of a block group, elementType on a string in a slice,  *)
(* map or struct.  A text is a sequence of characters.  JSONTextInputs     *)
(* are texts that json.Unmarshal accepts and that start with "{" or "[":   *)
(* flat arrays and objects of numbers and strings (a string may hold an    *)
(* escaped quote or a colon), some with blanks between the tokens, and     *)
(* arrays and objects that hold one of them.  None holds a line break: a   *)
(* string with a line break is never inline.                               *)
(***************************************************************************)
JSONStrings == {<<"\"", "a", "\"">>, <<"\"", "\\", "\"", "\"">>, <<"\"", ":", "\"">>}

JSONTextInputs ==
    LET scalars == {<<"1">>} \cup JSONStrings
        flat == {<<"[", "]">>, <<"{", "}">>, <<"{", " ", "}">>}
                \cup {<<"[">> \o v \o <<"]">> : v \in scalars}
                \cup {<<"[">> \o v \o <<",">> \o w \o <<"]">> : v, w \in scalars}
                \cup {<<"{">> \o k \o <<":">> \o v \o <<"}">> : k \in JSONStrings, v \in scalars}
                \cup {<<"{">> \o k \o <<":", " ">> \o v \o <<",", " ">> \o k \o <<":">> \o v \o <<"}">> :
                        k \in JSONStrings, v \in scalars}
    IN  flat
        \cup {<<"[">> \o v \o <<"]">> : v \in flat}
        \cup {<<"{">> \o k \o <<":">> \o v \o <<"}">> : k \in JSONStrings, v \in flat}

\* Texts that are no JSON: the empty string, plain text, and text that only
\* starts like JSON.
PlainTextInputs == {<<>>, <<"a">>, <<"{", "a">>, <<"[", "1">>}

isJSONChars(val) == val \in JSONTextInputs

\* json.Compact: the blanks outside strings are left out.
RECURSIVE jsonCompact(_, _, _, _)
jsonCompact(s, i, inString, escape) ==
    IF i > Len(s) THEN <<>>
    ELSE LET c == s[i]
         IN  IF inString
             THEN <<c>> \o jsonCompact(s, i + 1, escape \/ c # "\"", ~escape /\ c = "\\")
             ELSE IF c = " " THEN jsonCompact(s, i + 1, FALSE, FALSE)
             ELSE <<c>> \o jsonCompact(s, i + 1, c = "\"", FALSE)

\* json.Indent with prefix of 2 * baseIndent blanks and indent "  ": a line
\* break and the indentation after an opening bracket that is not closed at
\* once, after every comma and before the closing bracket; a blank after a
\* colon.
RECURSIVE jsonIndent(_, _, _, _, _, _, _)
jsonIndent(s, i, depth, inString, escape, needIndent, baseIndent) ==
    IF i > Len(s) THEN <<>>
    ELSE LET c == s[i]
             newline(d) == <<"\n">> \o [j \in 1..(2 * baseIndent + 2 * d) |-> " "]
         IN  IF inString
             THEN <<c>> \o jsonIndent(s, i + 1, depth, escape \/ c # "\"", ~escape /\ c = "\\",
                                      FALSE, baseIndent)
             ELSE IF c = " "
             THEN jsonIndent(s, i + 1, depth, FALSE, FALSE, needIndent, baseIndent)
             ELSE LET opens == needIndent /\ c \notin {"}", "]"}
                      d == IF opens THEN depth + 1 ELSE depth
                      pre == IF opens THEN newline(d) ELSE <<>>
                  IN  pre \o
                      (CASE c \in {"{", "["} ->
                                <<c>> \o jsonIndent(s, i + 1, d, FALSE, FALSE, TRUE, baseIndent)
                         [] c = "," ->
                                <<c>> \o newline(d) \o jsonIndent(s, i + 1, d, FALSE, FALSE, FALSE, baseIndent)
                         [] c = ":" ->
                                <<c, " ">> \o jsonIndent(s, i + 1, d, FALSE, FALSE, FALSE, baseIndent)
                         [] c \in {"}", "]"} ->
                                IF needIndent
                                THEN <<c>> \o jsonIndent(s, i + 1, d, FALSE, FALSE, FALSE, baseIndent)
                                ELSE newline(d - 1) \o <<c>>
                                     \o jsonIndent(s, i + 1, d - 1, FALSE, FALSE, FALSE, baseIndent)
                         [] OTHER ->
                                <<c>> \o jsonIndent(s, i + 1, d, c = "\"", FALSE, FALSE, baseIndent))

\* formatJSONMultiline: json.Indent, then the colors (left out here).
formatJSONMultiline(jsonStr, baseIndent) ==
    jsonIndent(jsonStr, 1, 0, FALSE, FALSE, FALSE, baseIndent)

InitJSON ==
    /\ opts \in ConcOptionInputs
    /\ handlers = <<[goas |-> <<>>, mu |-> 0]>>
    /\ derived = <<[parent |-> 0, goa |-> groupFrame("")]>>
    /\ proc = [p \in 1..1 |-> IdleProc]
    /\ sinkLog = [p \in 1..1 |-> <<>>]
    /\ heap = <<>>
    /\ root = NoSlot
    /\ fstack = <<>>
    /\ cur = NoSlot
    /\ vi = {}
    /\ out = <<>>
    /\ expanded = <<>>
    /\ status = "start"
    /\ \E val \in JSONTextInputs \cup PlainTextInputs,
          fn \in {"formatValueInline", "formatValueInlineAny", "colorize", "elementType"},
          n \in {0, 1} :
         \* n: the pointers before a string reached by reflection, the
         \* depth of a block group
         /\ (fn \in {"formatValueInline", "elementType"} => n = 0)
         /\ (fn = "colorize" => n = 1)
         /\ loc = [fn |-> fn, val |-> val, n |-> n]

\* formatValueInline, case slog.KindString: JSON goes to formatJSONMultiline
\* with baseIndent 0, other text is written as it is.
formatValueInlineString ==
    /\ status = "start"
    /\ loc.fn = "formatValueInline"
    /\ out' = IF isJSONChars(loc.val) THEN formatJSONMultiline(loc.val, 0) ELSE loc.val
    /\ status' = "done"
    /\ UNCHANGED <<hvars, heap, root, fstack, cur, vi, expanded, loc>>

\* formatValueInline, case slog.KindAny, reflect.String: the stars of the
\* pointers, then the marker of the empty string or the text; JSON goes to
\* formatJSONMultiline.
formatValueInlineReflectString ==
    /\ status = "start"
    /\ loc.fn = "formatValueInlineAny"
    /\ LET prefix == [j \in 1..loc.n |-> "*"]
       IN  out' = IF Len(loc.val) = 0 THEN prefix \o <<"empty">>
                  ELSE IF isJSONChars(loc.val) THEN formatJSONMultiline(loc.val, 0)
                  ELSE prefix \o loc.val
    /\ status' = "done"
    /\ UNCHANGED <<hvars, heap, root, fstack, cur, vi, expanded, loc>>

\* colorize, case slog.KindString, at depth l = loc.n.
colorizeKindString ==
    /\ status = "start"
    /\ loc.fn = "colorize"
    /\ out' = IF Len(loc.val) = 0 THEN <<"empty">>
              ELSE IF isJSONChars(loc.val) THEN formatJSONMultiline(loc.val, loc.n)
              ELSE loc.val
    /\ status' = "done"
    /\ UNCHANGED <<hvars, heap, root, fstack, cur, vi, expanded, loc>>

\* elementType, case reflect.String.
elementTypeString ==
    /\ status = "start"
    /\ loc.fn = "elementType"
    /\ out' = IF Len(loc.val) = 0 THEN <<"empty">> ELSE loc.val
    /\ status' = "done"
    /\ UNCHANGED <<hvars, heap, root, fstack, cur, vi, expanded, loc>>

NextJSON ==
    \/ formatValueInlineString
    \/ formatValueInlineReflectString
    \/ colorizeKindString
    \/ elementTypeString

SpecJSON == InitJSON /\ [][NextJSON]_vars

(***************************************************************************)
(* The calls of the rewrite hook: for every attribute of the list, the     *)
(* group path the hook is handed and the key of the attribute, in the      *)
(* order of the calls.                                                     *)
(***************************************************************************)
\* formatLogfmtAttrs: newGroup is a variable of the loop body.
RECURSIVE formatLogfmtHookCalls(_, _)
formatLogfmtHookCalls(as, group) ==
    IF Len(as) = 0 \/ opts.ReplaceAttr = "nil" THEN <<>>
    ELSE LET a == ReplaceAttr(group, as[1])
         IN  <<[group |-> group, key |-> as[1].Key]>>
             \o (IF a.Kind = "Group"
                 THEN formatLogfmtHookCalls(a.Group, Append(group, a.Key))
                 ELSE <<>>)
             \o formatLogfmtHookCalls(Tail(as), group)

\* colorize: group = append(group, a.Key) assigns the parameter, which the
\* loop goes on using for the attributes that follow.
RECURSIVE colorizeHookCalls(_, _)
colorizeHookCalls(as, group) ==
    IF Len(as) = 0 \/ opts.ReplaceAttr = "nil" THEN <<>>
    ELSE LET a == ReplaceAttr(group, as[1])
             group2 == IF a.Kind = "Group" THEN Append(group, a.Key) ELSE group
         IN  <<[group |-> group, key |-> as[1].Key]>>
             \o (IF a.Kind = "Group"
                 THEN colorizeHookCalls(IF opts.SortKeys THEN sortSort(a.Group) ELSE a.Group, group2)
                 ELSE <<>>)
             \o colorizeHookCalls(Tail(as), group2)

(***************************************************************************)
(* SpecPointer: formatValueInline on a top-level value that is a chain of  *)
(* pointers.  loc.hops is the length of the chain, loc.nilAt the hop that  *)
(* is nil (0: none) and loc.target the kind of the value the chain ends    *)
(* in.  loc.i counts the Elem() calls made and loc.ptr is the counter of   *)
(* reducePointerTypeValue.                                                 *)
(***************************************************************************)
PointerTargets ==
    {"struct", "slice", "map", "int", "uint", "float", "bool",
     "string", "empty", "url", "json", "chan"}

InitPointer ==
    /\ opts \in ConcOptionInputs
    /\ handlers = <<[goas |-> <<>>, mu |-> 0]>>
    /\ derived = <<[parent |-> 0, goa |-> groupFrame("")]>>
    /\ proc = [p \in 1..1 |-> IdleProc]
    /\ sinkLog = [p \in 1..1 |-> <<>>]
    /\ heap = <<>>
    /\ root = NoSlot
    /\ fstack = <<>>
    /\ cur = NoSlot
    /\ vi = {}
    /\ out = <<>>
    /\ expanded = <<>>
    /\ status = "reduce"
    /\ \E hops \in 0..MaxChain, nilAt \in 0..MaxChain, target \in PointerTargets :
         /\ nilAt <= hops
         /\ nilAt # 0 => target = "struct"
         /\ loc = [fn |-> "formatValueInline", hops |-> hops, nilAt |-> nilAt,
                   target |-> target, i |-> 0, ptr |-> 0, nil |-> FALSE]

\* reducePointerTypeValue, one turn of the loop: v = v.Elem(); a nil
\* pointer gives the zero Value and the function returns with t as it is.
reducePointerTypeValueLoop ==
    /\ status = "reduce"
    /\ loc.i < loc.hops
    /\ IF loc.nilAt = loc.i + 1
       THEN /\ loc' = [loc EXCEPT !.nil = TRUE]
            /\ status' = "switch"
       ELSE /\ loc' = [loc EXCEPT !.i = @ + 1, !.ptr = @ + 1]
            /\ UNCHANGED status
    /\ UNCHANGED <<hvars, heap, root, fstack, cur, vi, out, expanded>>

\* reducePointerTypeValue returns at the end of the chain; then the switch
\* on ut.Kind().  After a nil hop ut is a pointer type: the default case,
\* which writes a.Value.String(), the text of the attribute's own value:
\* "<nil>" if that is the nil pointer, else its address.
formatValueInlineSwitch ==
    /\ \/ status = "reduce" /\ loc.i = loc.hops
       \/ status = "switch"
    /\ LET prefix == [j \in 1..loc.ptr |-> RTok("star", 0)]
       IN  out' = CASE loc.nil -> <<RTok(IF loc.nilAt = 1 THEN "nil" ELSE "address", 0)>>
                    [] loc.target = "json" -> <<RTok("json", 0)>>
                    [] loc.target = "chan" -> <<RTok(IF loc.hops = 0 THEN "chan" ELSE "address", 0)>>
                    [] OTHER -> prefix \o <<RTok(loc.target, 0)>>
    /\ status' = "done"
    /\ UNCHANGED <<hvars, heap, root, fstack, cur, vi, expanded, loc>>

NextPointer ==
    \/ reducePointerTypeValueLoop
    \/ formatValueInlineSwitch

SpecPointer == InitPointer /\ [][NextPointer]_vars

(***************************************************************************)
(* SpecVisited: the value renderer run on two attributes of one record,    *)
(* one after the other, either as inline attributes (formatLogfmtAttrs) or *)
(* as attributes of a group that is rendered as a block (colorize; the     *)
(* group holds a string with a line break besides).  Attribute 1 is node   *)
(* 1, attribute 2 is node 2: a struct, slice or map that holds a pointer.  *)
(* Both may point to the same node 3, which may point to itself.           *)
(* loc.starts[i] is the length of the log `expanded` when attribute i      *)
(* began.                                                                  *)
(***************************************************************************)
InitVisited ==
    /\ \E o \in RenderOptionInputs : ~o.StringerFormatter /\ NewHandler(o, 1)
    /\ \E k1 \in NodeKinds, k2 \in NodeKinds, t2 \in {3, 4},
          s3 \in {Slot("int", 0, FALSE), Slot("ptr", 3, FALSE)} :
         heap = <<[kind |-> k1, slot |-> Slot("ptr", 3, FALSE)],
                  [kind |-> k2, slot |-> Slot("ptr", t2, FALSE)],
                  [kind |-> "struct", slot |-> s3],
                  [kind |-> "struct", slot |-> Slot("int", 0, FALSE)]>>
    /\ \E fn \in {"formatLogfmtAttrs", "colorize"} :
         loc = [fn |-> fn, as |-> <<Slot("val", 1, FALSE), Slot("val", 2, FALSE)>>,
                i |-> 0, starts |-> <<>>]
    /\ root = NoSlot
    /\ cur = NoSlot
    /\ fstack = <<>>
    /\ vi = {}
    /\ out = <<>>
    /\ expanded = <<>>
    /\ status = "done"

\* formatLogfmtAttrs: the next attribute goes to formatValueInline, which
\* makes a visited set of its own.
formatLogfmtAttrsNext ==
    /\ status = "done"
    /\ loc.fn = "formatLogfmtAttrs"
    /\ loc.i < Len(loc.as)
    /\ loc' = [loc EXCEPT !.i = @ + 1, !.starts = Append(@, Len(expanded))]
    /\ root' = loc.as[loc.i + 1]
    /\ cur' = loc.as[loc.i + 1]
    /\ vi' = {}
    /\ status' = "start"
    /\ UNCHANGED <<hvars, heap, fstack, out, expanded>>

\* colorize, case slog.KindAny: the next attribute of the list goes to
\* formatStruct, formatSlice or formatMap with the visited set that
\* formatOneLine made for the whole block and that colorize hands down to
\* the lists of the groups.
colorizeNext ==
    /\ status = "done"
    /\ loc.fn = "colorize"
    /\ loc.i < Len(loc.as)
    /\ loc' = [loc EXCEPT !.i = @ + 1, !.starts = Append(@, Len(expanded))]
    /\ root' = loc.as[loc.i + 1]
    /\ cur' = loc.as[loc.i + 1]
    /\ status' = "enter"
    /\ UNCHANGED <<hvars, heap, fstack, vi, out, expanded>>

NextVisited ==
    \/ formatLogfmtAttrsNext
    \/ colorizeNext
    \/ formatValueInlineAny
    \/ elementType
    \/ formatStruct
    \/ formatSlice
    \/ formatMap
    \/ formatReturn

SpecVisited == InitVisited /\ [][NextVisited]_vars

(***************************************************************************)
(* SpecJSONColor: colorizeJSONBytes on a JSON text, one turn of its loop   *)
(* per step.  The texts are JSONTextInputs as they are and as json.Indent  *)
(* lays them out, objects with a blank between the member name and the     *)
(* colon, and texts with the literals true, false and null.  loc holds the *)
(* function's variables (i counts from 1); out gets one entry per call of  *)
(* append: the index in data, the bytes and their color ("none" for bytes  *)
(* appended as they are).                                                  *)
(***************************************************************************)
\* The lookahead of colorizeJSONBytes, first loop: the index after the
\* closing quote of the string whose content begins at j.
RECURSIVE afterClosingQuote(_, _)
afterClosingQuote(data, j) ==
    IF j > Len(data) THEN j
    ELSE IF data[j] = "\\" THEN (IF j + 1 > Len(data) THEN j + 1 ELSE afterClosingQuote(data, j + 2))
    ELSE IF data[j] = "\"" THEN j + 1
    ELSE afterClosingQuote(data, j + 1)

\* The lookahead, second loop: white space is skipped; is a colon next?
RECURSIVE colonAhead(_, _)
colonAhead(data, j) ==
    IF j > Len(data) THEN FALSE
    ELSE IF data[j] = ":" THEN TRUE
    ELSE IF data[j] \notin {" ", "\n", "\t", "\r"} THEN FALSE
    ELSE colonAhead(data, j + 1)

\* The number loop: the index after the last byte of the number at i.
RECURSIVE afterNumber(_, _)
afterNumber(data, i) ==
    IF i <= Len(data) /\ data[i] \in {"0", "1", "2", "3", "4", "5", "6", "7", "8", "9", ".", "-", "e", "E", "+"}
    THEN afterNumber(data, i + 1)
    ELSE i

InitJSONColor ==
    /\ \E o \in ConcOptionInputs : NewHandler(o, 1)
    /\ heap = <<>>
    /\ root = NoSlot
    /\ fstack = <<>>
    /\ cur = NoSlot
    /\ vi = {}
    /\ out = <<>>
    /\ expanded = <<>>
    /\ status = "scan"
    /\ \E data \in JSONTextInputs
                   \cup {formatJSONMultiline(t, 0) : t \in JSONTextInputs}
                   \cup {<<"{">> \o k \o <<" ", ":">> \o <<"1">> \o <<"}">> : k \in JSONStrings}
                   \cup {<<"[", "t", "r", "u", "e", ",", "n", "u", "l", "l", "]">>,
                         <<"{", "\"", "t", "n", "1", "\"", ":", "f", "a", "l", "s", "e", "}">>,
                         <<"[", "\"", "t", "n", "1", "\"", ",", "-", "1", ".", "1", "e", "+", "1", "]">>} :
         loc = [fn |-> "colorizeJSONBytes", data |-> data, i |-> 1,
                inString |-> FALSE, inKey |-> FALSE, escape |-> FALSE]

\* One turn of the loop of colorizeJSONBytes, or its end.
colorizeJSONBytesStep ==
    /\ status = "scan"
    /\ LET data == loc.data
           i == loc.i
           strColor == IF loc.inKey THEN "gray" ELSE "white"
           word(n) == IF i + n - 1 <= Len(data) THEN SubSeq(data, i, i + n - 1) ELSE <<>>
           emit(text, color, n, inS, inK, esc) ==
               /\ out' = Append(out, [at |-> i, text |-> text, color |-> color])
               /\ loc' = [loc EXCEPT !.i = i + n, !.inString = inS, !.inKey = inK, !.escape = esc]
               /\ UNCHANGED status
           same(text, color, n) == emit(text, color, n, loc.inString, loc.inKey, FALSE)
       IN  IF i > Len(data)
           THEN status' = "done" /\ UNCHANGED <<out, loc>>
           ELSE LET ch == data[i]
                IN  IF loc.escape THEN same(<<ch>>, "none", 1)
                    ELSE IF ch = "\\" /\ loc.inString
                    THEN emit(<<ch>>, "none", 1, loc.inString, loc.inKey, TRUE)
                    ELSE CASE ch = "\"" ->
                                IF ~loc.inString
                                THEN LET isKey == colonAhead(data, afterClosingQuote(data, i + 1))
                                     IN  emit(<<ch>>, IF isKey THEN "gray" ELSE "white", 1, TRUE, isKey, FALSE)
                                ELSE emit(<<ch>>, strColor, 1, FALSE, FALSE, FALSE)
                           [] ch \in {"{", "}", "[", "]"} -> same(<<ch>>, "cyan", 1)
                           [] ch \in {":", ","} -> same(<<ch>>, "white", 1)
                           [] ch \in {"t", "f"} ->
                                IF ~loc.inString
                                THEN IF word(4) = <<"t", "r", "u", "e">> THEN same(word(4), "green", 4)
                                     ELSE IF word(5) = <<"f", "a", "l", "s", "e">> THEN same(word(5), "red", 5)
                                     ELSE same(<<ch>>, "none", 1)
                                ELSE same(<<ch>>, strColor, 1)
                           [] ch = "n" ->
                                IF ~loc.inString /\ word(4) = <<"n", "u", "l", "l">>
                                THEN same(word(4), "black", 4)
                                ELSE IF loc.inString THEN same(<<ch>>, strColor, 1)
                                ELSE same(<<ch>>, "none", 1)
                           [] ch \in {"0", "1", "2", "3", "4", "5", "6", "7", "8", "9", "-", "."} ->
                                IF ~loc.inString
                                THEN LET end == afterNumber(data, i)
                                     IN  same(SubSeq(data, i, end - 1), "cyan", end - i)
                                ELSE same(<<ch>>, strColor, 1)
                           [] OTHER ->
                                IF loc.inString THEN same(<<ch>>, strColor, 1)
                                ELSE same(<<ch>>, "none", 1)
    /\ UNCHANGED <<hvars, heap, root, fstack, cur, vi, expanded>>

NextJSONColor == colorizeJSONBytesStep

SpecJSONColor == InitJSONColor /\ [][NextJSONColor]_vars

(***************************************************************************)
(* SpecCaller: NewHandler called twice with the same *Options, with the    *)
(* caller's memory in view.  loc.o is the caller's Options value, loc.mem  *)
(* the slog.HandlerOptions objects that exist (index = address) and        *)
(* loc.ref the address in o.HandlerOptions (0 = nil).  A handler's opts    *)
(* hold the address of its HandlerOptions.                                 *)
(***************************************************************************)
InitCaller ==
    /\ opts = [Level |-> "nil", MaxSlicePrintSize |-> 0, TimeFormat |-> "",
               DebugColor |-> 0, InfoColor |-> 0, WarnColor |-> 0, ErrorColor |-> 0]
    /\ handlers = <<>>
    /\ derived = <<>>
    /\ proc = [p \in 1..1 |-> IdleProc]
    /\ sinkLog = [p \in 1..1 |-> <<>>]
    /\ heap = <<>>
    /\ root = NoSlot
    /\ fstack = <<>>
    /\ cur = NoSlot
    /\ vi = {}
    /\ out = <<>>
    /\ expanded = <<>>
    /\ status = "start"
    /\ \E o \in OptionsInputs :
         loc = IF ~o.nil /\ o.HandlerOptions = "set"
               THEN [fn |-> "NewHandler", o |-> o, ref |-> 1, mem |-> <<[Level |-> o.Level]>>]
               ELSE [fn |-> "NewHandler", o |-> o, ref |-> 0, mem |-> <<>>]

\* NewHandler: h.opts = *o copies the Options value and with it the pointer
\* o.HandlerOptions; h.opts.Level = ... then writes through that pointer.
\* Without HandlerOptions, and for nil options, the handler gets a new
\* slog.HandlerOptions.
NewHandlerOnCallerOptions ==
    /\ status = "start"
    /\ loc.fn = "NewHandler"
    /\ "mem" \in DOMAIN loc
    /\ LET shared == ~loc.o.nil /\ loc.ref # 0
           ref == IF shared THEN loc.ref ELSE Len(loc.mem) + 1
           level == IF shared /\ loc.mem[ref].Level # "nil" THEN loc.mem[ref].Level ELSE "INFO"
           hopts == [resolveOptions(loc.o) EXCEPT !.Level = level]
       IN  /\ loc' = [loc EXCEPT !.mem = IF shared THEN [@ EXCEPT ![ref].Level = level]
                                         ELSE Append(@, [Level |-> level])]
           /\ handlers' = Append(handlers, [goas |-> <<>>, mu |-> 0, opts |-> hopts,
                                            HandlerOptions |-> ref])
           /\ opts' = hopts
           /\ derived' = Append(derived, [parent |-> 0, goa |-> groupFrame("")])
           /\ status' = IF Len(handlers) = 1 THEN "done" ELSE "start"
    /\ UNCHANGED <<proc, sinkLog, heap, root, fstack, cur, vi, out, expanded>>

NextCaller == NewHandlerOnCallerOptions

SpecCaller == InitCaller /\ [][NextCaller]_vars

(***************************************************************************)
(* Helpers of the properties                                               *)
(***************************************************************************)
InCall(p) == proc[p].pc # "idle"

goasOf(p) == handlers[proc[p].h].goas

SeqToSet(s) == {s[i] : i \in 1..Len(s)}

\* The group names of the frames before frame i, oldest first.
RECURSIVE OpenGroups(_, _)
OpenGroups(goas, i) ==
    IF i <= 1 THEN <<>>
    ELSE IF goas[i - 1].group # ""
         THEN Append(OpenGroups(goas, i - 1), goas[i - 1].group)
         ELSE OpenGroups(goas, i - 1)

\* The non-group attributes of a list, depth first, each with the keys of
\* the groups around it: <<path, key, value>>.
RECURSIVE Leaves(_, _)
Leaves(as, path) ==
    IF Len(as) = 0 THEN <<>>
    ELSE (IF as[1].Kind = "Group"
          THEN Leaves(as[1].Group, Append(path, as[1].Key))
          ELSE <<[path |-> path, key |-> as[1].Key, val |-> as[1].Str]>>)
         \o Leaves(Tail(as), path)

DottedKey(leaf) == stringsJoin(Append(leaf.path, leaf.key))

\* What was supplied: every bound attribute with the groups open at its
\* WithAttrs call, every record attribute with all the handler's groups.
RECURSIVE SuppliedLeaves(_, _)
SuppliedLeaves(goas, i) ==
    IF i = 0 THEN <<>>
    ELSE SuppliedLeaves(goas, i - 1)
         \o (IF goas[i].group = "" THEN Leaves(goas[i].attrs, OpenGroups(goas, i)) ELSE <<>>)

Supplied(goas, r) ==
    SuppliedLeaves(goas, Len(goas))
    \o Leaves(levelStep(r).r.Attrs, OpenGroups(goas, Len(goas) + 1))

\* What was rendered: the key text and value of every inline token, and of
\* every block line with the headers of the groups it is indented under.
RECURSIVE BlockPath(_, _, _)
BlockPath(b, i, l) ==
    IF l = 0 THEN <<>>
    ELSE LET hs == {j \in 1..(i - 1) : b[j].t = "group" /\ b[j].l = l - 1}
             j == CHOOSE x \in hs : \A y \in hs : y <= x
         IN  Append(BlockPath(b, j, l - 1), b[j].k[1])

Rendered(b) ==
    { <<b[i].k, b[i].v>> : i \in {j \in 1..Len(b) : b[j].t = "kv"} }
    \cup { <<stringsJoin(Append(BlockPath(b, i, b[i].l), b[i].k[1])), b[i].v>> :
             i \in {j \in 1..Len(b) : b[j].t = "line"} }

NumRendered(b) == Cardinality({j \in 1..Len(b) : b[j].t \in {"kv", "line"}})

\* Every text piece of the keys of the output.
NamesInOutput(b) == UNION { SeqToSet(b[i].k) : i \in 1..Len(b) }

\* A group header of the block section with no line under it.
EmptyGroupEmitted(b) ==
    \E i \in 1..Len(b) :
        /\ b[i].t = "group"
        /\ (i = Len(b) \/ b[i + 1].l <= b[i].l \/ b[i + 1].t \notin {"group", "line"})

(***************************************************************************)
(* C1: two Handle calls on handlers that share the sink, a handler and the *)
(* handlers derived from it included, are never inside the sink's Write at *)
(* the same time.                                                          *)
(***************************************************************************)
SinkWritesNeverOverlap ==
    Cardinality({p \in Procs : proc[p].pc = "writing"}) <= 1

RenderTerminates == status # "overflow"

(***************************************************************************)
(* C4: within one render call, a pointer met by elementType is expanded    *)
(* exactly when its (address, type) pair was not met before and gives the  *)
(* placeholder otherwise; a cycle of three structs linked by pointers ends *)
(* with one placeholder after finitely many nested records.                *)
(***************************************************************************)
Placeholders == SelectSeq(out, LAMBDA t : t.t = "placeholder")

Opens == SelectSeq(out, LAMBDA t : t.t = "open")

ThreeNodeCycle ==
    /\ Len(heap) = 3
    /\ \A i \in 1..3 : /\ heap[i].kind = "struct"
                       /\ heap[i].slot = Slot("ptr", (i % 3) + 1, FALSE)
    /\ root = Slot("ptr", 1, FALSE)

PointerExpandedOnce ==
    /\ \A i \in 1..Len(expanded) :
         (expanded[i].how = "expand") <=> (\A j \in 1..(i - 1) : expanded[j].key # expanded[i].key)
    /\ Len(Placeholders) = Len(SelectSeq(expanded, LAMBDA e : e.how = "placeholder"))
    /\ ThreeNodeCycle =>
         /\ status # "overflow"
         /\ Len(Opens) <= 4
         /\ status = "done" => Len(Placeholders) = 1 /\ Len(Opens) = 4

PointerExpandedOnceWitness ==
    /\ ThreeNodeCycle
    /\ status = "done"
    /\ Len(expanded) = 4
    /\ expanded[4] = [key |-> <<2, "struct">>, how |-> "placeholder"]
    /\ out[6] = RTok("placeholder", 2)
    /\ Len(out) = 10

(***************************************************************************)
(* C5: rendering never faults, whatever the shape of the attribute value:  *)
(* every value gets some text.                                             *)
(***************************************************************************)
HandleNeverFaults == status # "panic"

(***************************************************************************)
(* C6: a Handle call makes exactly one Write call, with the whole rendered *)
(* record, and returns the error of that call unchanged.                   *)
(***************************************************************************)
OneWritePerRecord ==
    \A p \in Procs :
        /\ Len(sinkLog[p]) <= 1
        /\ InCall(p) => proc[p].b = formatOneLine(goasOf(p), proc[p].r)
        /\ proc[p].pc \in {"writing", "written", "done"} => sinkLog[p] = <<proc[p].b>>
        /\ proc[p].pc = "done" => proc[p].ret = proc[p].err

OneWritePerRecordWitness ==
    \E p \in Procs :
        /\ proc[p].pc = "done"
        /\ proc[p].err = "EIO"
        /\ proc[p].ret = "EIO"
        /\ Len(sinkLog[p]) = 1

(***************************************************************************)
(* C7: a record without attributes, logged through a handler whose newest  *)
(* frames are groups, shows none of those groups' names, under every       *)
(* option choice, and no group without attributes is emitted.              *)
(***************************************************************************)
TrailingGroupNames(goas) ==
    {goas[i].group : i \in (Len(dropTrailingGroups(goas)) + 1)..Len(goas)}
    \ {goas[i].group : i \in 1..Len(dropTrailingGroups(goas))}

TrailingGroupsDropped ==
    \A p \in Procs :
        (InCall(p) /\ Len(proc[p].r.Attrs) = 0) =>
            /\ TrailingGroupNames(goasOf(p)) \cap NamesInOutput(proc[p].b) = {}
            /\ ~EmptyGroupEmitted(proc[p].b)

(***************************************************************************)
(* C8: without sorting, the merged list holds the bound attributes of the  *)
(* older frames, then those of the newer frames, then the record's own.    *)
(***************************************************************************)
RECURSIVE BoundAttrs(_, _)
BoundAttrs(goas, i) ==
    IF i = 0 THEN <<>> ELSE BoundAttrs(goas, i - 1) \o goas[i].attrs

BoundAttrsPrecedeRecordAttrs ==
    \A p \in Procs :
        (/\ InCall(p)
         /\ ~opts.SortKeys
         /\ \A i \in 1..Len(goasOf(p)) : goasOf(p)[i].group = "") =>
            normalize(goasOf(p), proc[p].r)
                = BoundAttrs(goasOf(p), Len(goasOf(p))) \o levelStep(proc[p].r).r.Attrs

(***************************************************************************)
(* C9: every attribute is rendered under exactly the groups that were open *)
(* when it was supplied: a bound attribute under the groups added before   *)
(* its WithAttrs call, a record attribute under all the handler's groups,  *)
(* outermost first.                                                        *)
(***************************************************************************)
RenderedUnderOpenGroups ==
    \A p \in Procs :
        InCall(p) =>
            LET sup == Supplied(goasOf(p), proc[p].r)
            IN  /\ Rendered(proc[p].b) = {<<DottedKey(sup[i]), sup[i].val>> : i \in 1..Len(sup)}
                /\ NumRendered(proc[p].b) = Len(sup)

RenderedUnderOpenGroupsWitness ==
    \E p \in Procs :
        /\ proc[p].pc = "done"
        /\ Len(goasOf(p)) = 2
        /\ goasOf(p)[1].group = ""
        /\ goasOf(p)[2].group = "g"
        /\ \E i \in 1..Len(proc[p].b) : proc[p].b[i].t = "kv" /\ proc[p].b[i].k = <<"a">>
        /\ \E i \in 1..Len(proc[p].b) : proc[p].b[i].t = "kv" /\ proc[p].b[i].k = <<"g", ".", "q", ".", "y">>

(***************************************************************************)
(* C10: the inline formatter emits one token per non-group attribute, in   *)
(* list order and depth first, keyed by the dot-joined group keys and      *)
(* attribute key; groups emit no token; duplicate keys are all emitted.    *)
(***************************************************************************)
InlineTokens(b) == SelectSeq(b, LAMBDA t : t.t = "kv")

InlineList(p) == SelectSeq(normalize(goasOf(p), proc[p].r), LAMBDA a : ~isMultiline(a))

OneTokenPerAttribute ==
    \A p \in Procs :
        InCall(p) =>
            LET ls == Leaves(InlineList(p), <<>>)
                ts == InlineTokens(proc[p].b)
            IN  /\ Len(ts) = Len(ls)
                /\ \A i \in 1..Len(ls) : ts[i].k = DottedKey(ls[i]) /\ ts[i].v = ls[i].val

OneTokenPerAttributeWitness ==
    \E p \in Procs :
        /\ proc[p].pc = "done"
        /\ LET ts == InlineTokens(proc[p].b)
           IN  /\ \E i \in 1..Len(ts) : ts[i].k = <<"g", ".", "h", ".", "q", ".", "y">>
               /\ \E i, j \in 1..Len(ts) : i < j /\ ts[i].k = ts[j].k

(***************************************************************************)
(* C11: after normalization a top-level attribute is rendered in the block *)
(* section if and only if its value is a string that contains a line break *)
(* or parses as JSON; every other attribute, groups and structured values  *)
(* included, is rendered inline.                                           *)
(***************************************************************************)
StringBlock(a) == a.Kind = "String" /\ (StrContainsNewline(a.Str) \/ isJSON(a.Str))

TopLevelBlock(b) == SelectSeq(b, LAMBDA t : t.t \in {"line", "group"} /\ t.l = 0)

BlockIffStringBlock ==
    \A p \in Procs :
        InCall(p) =>
            LET want == SelectSeq(normalize(goasOf(p), proc[p].r), StringBlock)
                got == TopLevelBlock(proc[p].b)
            IN  /\ Len(got) = Len(want)
                /\ \A i \in 1..Len(want) : got[i].k = <<want[i].Key>>

(***************************************************************************)
(* C12: when the message contains a line break, the summary line (time,    *)
(* level badge, inline attributes) holds no part of the message and is     *)
(* ended by a line break; the message comes only after it, in the block    *)
(* section, and the inline attributes stay on the summary line.            *)
(***************************************************************************)
MessageOffSummaryLine ==
    \A p \in Procs :
        (InCall(p) /\ StrContainsNewline(proc[p].r.Message)) =>
            LET b == proc[p].b
                is == {i \in 1..Len(b) : b[i].t = "blockmsg"}
            IN  /\ \A i \in 1..Len(b) : b[i].t # "msg"
                /\ Cardinality(is) = 1
                /\ \A i \in is :
                     /\ i > 1
                     /\ b[i - 1].t = "nl"
                     /\ \A j \in 1..Len(b) : b[j].t = "kv" => j < i

(***************************************************************************)
(* C13: a sequence of n elements rendered with configured maximum m (the   *)
(* default for an unset m) shows the count n, exactly min(n, m) elements   *)
(* in index order, and the "..." marker exactly when n > m.                *)
(***************************************************************************)
SliceElems == SelectSeq(out, LAMBDA t : t.t = "int")

SliceTruncation ==
    (status = "done" /\ root.t = "ints") =>
        LET n == root.to
            m == opts.MaxSlicePrintSize
        IN  /\ out[1] = RTok("count", n)
            /\ Len(SliceElems) = min(n, m)
            /\ \A i \in 1..Len(SliceElems) : SliceElems[i].n = i - 1
            /\ (\E i \in 1..Len(out) : out[i].t = "more") <=> (n > m)

(***************************************************************************)
(* C14: a map renders its entries in ascending order of the keys' text,    *)
(* with or without SortKeys, and rendering the same map twice gives the    *)
(* same text whatever order the runtime hands out the keys in, for every   *)
(* key type.                                                               *)
(***************************************************************************)
MapEntries == SelectSeq(out, LAMBDA t : t.t = "entry")

MapRenderDeterministic ==
    (status = "returned" /\ loc.fn = "formatMap") =>
        /\ \A i \in 1..(Len(MapEntries) - 1) :
             textRank(MapEntries[i].k) <= textRank(MapEntries[i + 1].k)
        /\ loc.call = 2 => out = loc.first

(***************************************************************************)
(* C15: for a chain of single-cause wrappers the rendered text is the      *)
(* segments joined by ": ", outermost first, where a wrapper's segment is  *)
(* its message without the cause's message as a trailing suffix and        *)
(* without a ": " before it, an empty segment is left out, and the leaf's  *)
(* segment is its whole message; so a chain of wrappers "<prefix>: <cause  *)
(* message>" renders as the outermost error's message.                     *)
(***************************************************************************)
RECURSIVE Segments(_, _)
Segments(chain, i) ==
    IF i = Len(chain) THEN <<chain[i].msg>>
    ELSE LET m == chain[i].msg
             c == chain[i + 1].msg
             n == Len(m) - Len(c)
             a == IF n >= 0 /\ SubSeq(m, n + 1, Len(m)) = c THEN SubSeq(m, 1, n) ELSE m
             k == Len(a) - 2
             seg == IF k >= 0 /\ SubSeq(a, k + 1, Len(a)) = ColonSpace THEN SubSeq(a, 1, k) ELSE a
         IN  (IF seg = <<>> THEN <<>> ELSE <<seg>>) \o Segments(chain, i + 1)

PrefixColonChain ==
    \A i \in 1..(Len(heap) - 1) : heap[i].style = "colon" /\ heap[i].prefix # <<>>

ErrorChainText ==
    (status = "done" /\ loc.fn = "formatError") =>
        /\ out = stringsJoinSep(Segments(heap, 1), ColonSpace)
        /\ PrefixColonChain => out = heap[1].msg

ErrorChainTextWitness ==
    /\ status = "done"
    /\ loc.fn = "formatError"
    /\ Len(heap) = 3
    /\ PrefixColonChain
    /\ heap[3].msg = <<"b">>
    /\ out = <<"e", ":", " ", "e", ":", " ", "b">>

(***************************************************************************)
(* C16: every attribute that reaches classification, from the record or    *)
(* bound through WithAttrs, has its lazy value resolved; a LogValue that   *)
(* panics gives an inline error value for its attribute and Handle goes    *)
(* on.                                                                     *)
(***************************************************************************)
UnresolvedText == LogValuerAttr("q", "group").Str

AttrsResolved ==
    \A p \in Procs :
        InCall(p) =>
            /\ \A i \in 1..Len(normalize(goasOf(p), proc[p].r)) :
                 normalize(goasOf(p), proc[p].r)[i].Kind # "LogValuer"
            /\ \A i \in 1..Len(proc[p].b) : proc[p].b[i].v # UnresolvedText
            /\ (\E i \in 1..Len(proc[p].r.Attrs) :
                    proc[p].r.Attrs[i] = LogValuerAttr("q", "panic"))
                 => \E i \in 1..Len(proc[p].b) :
                       proc[p].b[i].t = "kv" /\ proc[p].b[i].v = "LogValue panicked"

(***************************************************************************)
(* C17: a hook that returns an empty key suppresses the program location   *)
(* only; every other attribute keeps its token, with the empty key as      *)
(* given.                                                                  *)
(***************************************************************************)
ValueTokens(b) == SelectSeq(b, LAMBDA t : t.t \in {"kv", "line"})

HasSource(b) == \E i \in 1..Len(b) : b[i].t = "source"

EmptyKeyOnlyHidesSource ==
    \A p \in Procs :
        InCall(p) =>
            LET b == proc[p].b
                ls == Leaves(normalize(goasOf(p), proc[p].r), <<>>)
            IN  /\ HasSource(b) <=> (opts.AddSource /\ opts.ReplaceAttr # "emptyKey")
                /\ Len(ValueTokens(b)) = Len(ls)
                /\ opts.ReplaceAttr = "emptyKey" =>
                     \A i \in 1..Len(ValueTokens(b)) :
                        /\ ValueTokens(b)[i].k[Len(ValueTokens(b)[i].k)] = ""
                        /\ \E j \in 1..Len(ls) : ls[j].val = ValueTokens(b)[i].v

EmptyKeyOnlyHidesSourceWitness ==
    \E p \in Procs :
        /\ proc[p].pc = "done"
        /\ opts.ReplaceAttr = "emptyKey"
        /\ opts.AddSource
        /\ ~HasSource(proc[p].b)
        /\ \E i, j \in 1..Len(proc[p].b) :
             /\ proc[p].b[i] = Tok("kv", <<"">>, "INFO", 0)
             /\ proc[p].b[j] = Tok("kv", <<"">>, "1", 0)

(***************************************************************************)
(* C18: with SortKeys the top-level list and the list of every nested      *)
(* group are rendered in ascending key order, inline and in the block      *)
(* section, attributes with equal keys in their original order.            *)
(***************************************************************************)
RECURSIVE DeepSort(_)
DeepSort(as) ==
    sortSort([i \in 1..Len(as) |->
                IF as[i].Kind = "Group" THEN [as[i] EXCEPT !.Group = DeepSort(@)] ELSE as[i]])

SortedAtEveryLevel ==
    \A p \in Procs :
        (InCall(p) /\ opts.SortKeys /\ opts.ReplaceAttr \in {"nil", "identity"}) =>
            LET as == normalize(goasOf(p), proc[p].r)
                want == Leaves(DeepSort(SelectSeq(as, LAMBDA a : ~isMultiline(a))), <<>>)
                        \o Leaves(DeepSort(SelectSeq(as, isMultiline)), <<>>)
                got == ValueTokens(proc[p].b)
            IN  /\ Len(got) = Len(want)
                /\ \A i \in 1..Len(want) :
                     got[i].k[Len(got[i].k)] = want[i].key /\ got[i].v = want[i].val

(***************************************************************************)
(* C19: a blank line follows a record's output exactly when                *)
(* NewLineAfterLog is set; without it the output ends with one line break  *)
(* and no blank line, with or without block content.                       *)
(***************************************************************************)
\* The tokens whose text ends with a line break: the line break itself, a
\* line or a group header of the block section, the block message.
EndsWithBreak(tok) == tok.t \in {"nl", "line", "group", "blockmsg"}

\* The number of line breaks the output ends with.
RECURSIVE TrailingBreaks(_)
TrailingBreaks(b) ==
    IF Len(b) = 0 THEN 0
    ELSE IF b[Len(b)].t = "nl" THEN 1 + TrailingBreaks(SubSeq(b, 1, Len(b) - 1))
    ELSE IF EndsWithBreak(b[Len(b)]) THEN 1
    ELSE 0

BlankLineIffFlag ==
    \A p \in Procs :
        InCall(p) =>
            IF opts.NewLineAfterLog
            THEN TrailingBreaks(proc[p].b) >= 2
            ELSE TrailingBreaks(proc[p].b) = 1

(***************************************************************************)
(* C20: NewHandler gives the documented defaults for nil options and for   *)
(* unset fields (level Info, MaxSlicePrintSize 50, the time format, the    *)
(* colors Blue, Green, Yellow, Red); a color that is zero or outside the   *)
(* palette becomes its level's default; every valid value set is kept.    *)
(***************************************************************************)
WantColor(c, defaultColor) == IF c = 0 \/ c >= PaletteSize THEN defaultColor ELSE c

OptionsResolved ==
    (status = "done" /\ loc.fn = "NewHandler") =>
        LET o == loc.o
        IN  IF o.nil
            THEN /\ opts.Level = "INFO"
                 /\ opts.MaxSlicePrintSize = DefaultMaxSlicePrintSize
                 /\ opts.TimeFormat = DefaultTimeFormat
                 /\ <<opts.DebugColor, opts.InfoColor, opts.WarnColor, opts.ErrorColor>>
                      = <<Blue, Green, Yellow, Red>>
            ELSE /\ opts.Level = (IF o.Level = "nil" THEN "INFO" ELSE o.Level)
                 /\ opts.MaxSlicePrintSize
                      = (IF o.MaxSlicePrintSize = 0 THEN DefaultMaxSlicePrintSize
                         ELSE o.MaxSlicePrintSize)
                 /\ opts.TimeFormat
                      = (IF o.TimeFormat = "" THEN DefaultTimeFormat ELSE o.TimeFormat)
                 /\ opts.DebugColor = WantColor(o.DebugColor, Blue)
                 /\ opts.InfoColor = WantColor(o.InfoColor, Green)
                 /\ opts.WarnColor = WantColor(o.WarnColor, Yellow)
                 /\ opts.ErrorColor = WantColor(o.ErrorColor, Red)

(***************************************************************************)
(* C21: WithGroup with the empty name and WithAttrs with the empty list    *)
(* return the receiver and leave every frame list as it was; with a        *)
(* non-empty argument they return a handler that did not exist before,     *)
(* with the receiver's options and the receiver's sink.                    *)
(***************************************************************************)
EmptyArgument ==
    \/ loc.fn = "WithGroup" /\ loc.s = ""
    \/ loc.fn = "WithAttrs" /\ Len(loc.as) = 0

DeriveReturnsSelfOrNew ==
    loc.fn \in {"WithGroup", "WithAttrs"} =>
        IF EmptyArgument
        THEN /\ loc.ret = loc.h
             /\ handlers = loc.before
        ELSE /\ loc.ret # loc.h
             /\ loc.ret \in Handlers \ (1..Len(loc.before))
             /\ handlers[loc.ret].opts = handlers[loc.h].opts
             /\ handlers[loc.ret].out = handlers[loc.h].out

DeriveReturnsSelfOrNewWitness ==
    /\ loc.fn = "WithAttrs"
    /\ Len(loc.as) > 0
    /\ loc.h = 2
    /\ loc.ret = 3
    /\ handlers[1].out # handlers[2].out
    /\ handlers[1].opts # handlers[2].opts
    /\ handlers[3].out = handlers[2].out
    /\ handlers[3].opts = handlers[2].opts

(***************************************************************************)
(* C22, as stated: with NoColor the output of any record holds no terminal *)
(* escape sequence, and it is the output of the same record with colors,   *)
(* all escape sequences removed.                                           *)
(***************************************************************************)
stripEscapes(b) == SelectSeq(b, LAMBDA piece : piece \notin EscapeSequences)

RenderLeavesBoundAttrs ==
    loc.fn = "Handle" => \A h \in Handlers : handlers[h].goas = loc.goas

(***************************************************************************)
(* C24: the inline rendering of a JSON-parseable string holds no line      *)
(* break and, colors aside, is the compact form of the JSON text.          *)
(***************************************************************************)
InlineJSONIsCompact ==
    (loc.fn = "formatValueInline" /\ status = "done" /\ "val" \in DOMAIN loc /\ isJSONChars(loc.val)) =>
        /\ \A i \in 1..Len(out) : out[i] # "\n"
        /\ out = jsonCompact(loc.val, 1, FALSE, FALSE)

(***************************************************************************)
(* C25: every call of the rewrite hook, from the inline and from the block *)
(* rendering, hands the hook the keys of the groups that enclose the       *)
(* attribute, outermost first, wherever the attribute stands in its list.  *)
(***************************************************************************)
\* The attributes of a list with the keys of their enclosing groups.
RECURSIVE Enclosed(_, _)
Enclosed(as, path) ==
    IF Len(as) = 0 THEN {}
    ELSE LET a == ReplaceAttr(path, as[1])
         IN  {[group |-> path, key |-> as[1].Key]}
             \cup (IF a.Kind = "Group" THEN Enclosed(a.Group, Append(path, a.Key)) ELSE {})
             \cup Enclosed(Tail(as), path)

HookGetsEnclosingGroups ==
    \A p \in Procs :
        (InCall(p) /\ opts.ReplaceAttr # "nil") =>
            LET as == normalize(goasOf(p), proc[p].r)
                inlineAttrs == SelectSeq(as, LAMBDA a : ~isMultiline(a))
                multilineAttrs == SelectSeq(as, LAMBDA a : isMultiline(a))
            IN  /\ SeqToSet(formatLogfmtHookCalls(inlineAttrs, <<>>)) = Enclosed(inlineAttrs, <<>>)
                /\ SeqToSet(colorizeHookCalls(multilineAttrs, <<>>)) = Enclosed(multilineAttrs, <<>>)

(***************************************************************************)
(* C26: a top-level value that is a chain of k pointers is rendered as k   *)
(* star markers and then the target, if no pointer of the chain is nil;    *)
(* if one is, at whatever depth, the rendering ends in the nil marker.     *)
(***************************************************************************)
StarsThenTargetOrNil ==
    (loc.fn = "formatValueInline" /\ status = "done" /\ "hops" \in DOMAIN loc) =>
        IF loc.nilAt = 0
        THEN /\ Len(out) = loc.hops + 1
             /\ \A j \in 1..loc.hops : out[j].t = "star"
             /\ out[Len(out)].t = loc.target
        ELSE out[Len(out)].t = "nil"

(***************************************************************************)
(* C27: the empty string is rendered as the marker "empty", never as no    *)
(* bytes at all, by each renderer of a string: for an inline string        *)
(* attribute, a block string attribute, a string behind pointers, a string *)
(* in a slice, map or struct.                                              *)
(***************************************************************************)
EmptyStringHasMarker ==
    (/\ loc.fn \in {"formatValueInline", "formatValueInlineAny", "colorize", "elementType"}
     /\ "val" \in DOMAIN loc
     /\ status = "done"
     /\ Len(loc.val) = 0) =>
        /\ Len(out) > 0
        /\ out[Len(out)] = "empty"

\* The attribute during whose rendering entry j of the log was written.
AttrOfExpansion(j) ==
    CHOOSE i \in 1..Len(loc.starts) :
        /\ loc.starts[i] < j
        /\ \A i2 \in 1..Len(loc.starts) : loc.starts[i2] < j => i2 <= i

(***************************************************************************)
(* C28: the visited set belongs to one attribute's rendering: a pointer    *)
(* is rendered as a placeholder only if the rendering of that same         *)
(* attribute expanded it before, inline and in a block.                    *)
(***************************************************************************)
VisitedScopedToAttribute ==
    ("starts" \in DOMAIN loc) =>
        \A j \in 1..Len(expanded) :
            expanded[j].how = "placeholder" =>
                \E j1 \in 1..(j - 1) :
                    /\ expanded[j1].key = expanded[j].key
                    /\ expanded[j1].how = "expand"
                    /\ AttrOfExpansion(j1) = AttrOfExpansion(j)

\* The string tokens of a JSON text by the grammar: a string runs from a
\* quote to the next quote that no backslash escapes.  StringEnd is the
\* index of the closing quote of the string whose content begins at j.
RECURSIVE StringEnd(_, _)
StringEnd(d, j) ==
    IF j >= Len(d) THEN Len(d)
    ELSE IF d[j] = "\\" THEN StringEnd(d, j + 2)
    ELSE IF d[j] = "\"" THEN j
    ELSE StringEnd(d, j + 1)

RECURSIVE StringTokens(_, _)
StringTokens(d, i) ==
    IF i > Len(d) THEN {}
    ELSE IF d[i] = "\""
    THEN {<<i, StringEnd(d, i + 1)>>} \cup StringTokens(d, StringEnd(d, i + 1) + 1)
    ELSE StringTokens(d, i + 1)

\* The indexes of the backslashes of a string and of the characters they
\* escape.
RECURSIVE EscapePairs(_, _, _)
EscapePairs(d, j, e) ==
    IF j >= e THEN {}
    ELSE IF d[j] = "\\" THEN {j, j + 1} \cup EscapePairs(d, j + 2, e)
    ELSE EscapePairs(d, j + 1, e)

\* A string is a member name if a colon is the first character after it
\* that is no white space.
IsMemberName(d, e) ==
    \E j \in (e + 1)..Len(d) :
        /\ d[j] = ":"
        /\ \A j2 \in (e + 1)..(j - 1) : d[j2] \in {" ", "\n", "\t", "\r"}

(***************************************************************************)
(* C29: when colorizeJSONBytes has run on a valid JSON text, every string  *)
(* token in it is colored as a key (gray) if it is a member name and as a  *)
(* value (white) if not, from its opening quote to its closing quote,      *)
(* except that a backslash and the character after it are appended as      *)
(* they are; the escaped character does not end the string.                *)
(***************************************************************************)
StringsColoredKeyOrValue ==
    (loc.fn = "colorizeJSONBytes" /\ status = "done") =>
        \A tok \in StringTokens(loc.data, 1) :
            \A p \in tok[1]..tok[2] :
                \E k \in DOMAIN out :
                    /\ out[k].at = p
                    /\ out[k].text = <<loc.data[p]>>
                    /\ out[k].color =
                          IF p \in EscapePairs(loc.data, tok[1] + 1, tok[2]) THEN "none"
                          ELSE IF IsMemberName(loc.data, tok[2]) THEN "gray"
                          ELSE "white"

(***************************************************************************)
(* C30: NewHandler leaves the caller's Options and slog.HandlerOptions as  *)
(* they were, Level included, and gives every handler a HandlerOptions of  *)
(* its own: none is the caller's, and no two handlers built from the same  *)
(* options have the same one.                                              *)
(***************************************************************************)
CallerOptionsUntouched ==
    (loc.fn = "NewHandler" /\ "mem" \in DOMAIN loc /\ Len(handlers) > 0) =>
        /\ loc.ref # 0 => loc.mem[loc.ref].Level = loc.o.Level
        /\ \A i \in DOMAIN handlers :
             /\ handlers[i].HandlerOptions # loc.ref
             /\ \A j \in DOMAIN handlers :
                  i # j => handlers[i].HandlerOptions # handlers[j].HandlerOptions

=============================================================================
